---- MODULE Spec2Model ----
(***************************************************************************)
(* Model of the validator store (src/src/stores/validatorStore.ts): the    *)
(* zustand state, its actions and the asynchronous jobs they start.        *)
(*                                                                         *)
(* Scheduling.  JavaScript runs one task at a time; a job gives up control *)
(* only where it awaits a remote call.  A model step is therefore the code *)
(* that runs between two such points.  Sequential remote calls of one item *)
(* between which the store is neither read nor written are one step.  A    *)
(* group of items run under Promise.all whose continuations touch only the *)
(* job's locals settles in one step (the step of its last item), with the  *)
(* outcome of every item chosen freely; the items of fetchValidatorPage    *)
(* write the cache one by one and are separate steps.                      *)
(*                                                                         *)
(* Numbers.  JavaScript numbers that hold ratios (APY, averages,           *)
(* commission) are exact rationals <<n, d>> in lowest terms; floating      *)
(* point rounding is not modelled.  bigint amounts are naturals.           *)
(***************************************************************************)
EXTENDS Integers, Sequences, FiniteSets, TLC

VARIABLES
    state,      \* the zustand store: one field per field of ValidatorState
    jobs,       \* in-flight invocations: id -> [op, cont, loc]
    timers,     \* pending setTimeout callbacks, by kind
    calls,      \* number of calls made by the user interface so far
    faults,     \* number of remote calls that did not answer so far
    ev          \* what completed in the last step (observation only)

vars == <<state, jobs, timers, calls, faults, ev>>

----------------------------------------------------------------------------
(* Bounds of the model.                                                    *)

NumValidators == 2
ChainActiveEra == 3
MaxCalls == 2
MaxSeqCalls == 5
MaxHistCalls == 3
MaxFaults == 1
MaxSeqFaults == 1
MaxHistFaults == 0
MaxGroups == 2
MaxFaultyCalls == 3
MaxFaultyFaults == 2
MaxApyPoints == 10
MaxEraCalls == 3
MaxEraFaults == 0
MaxSelCalls == 5
MaxSelToggles == 2

(* Program constants.                                                      *)

InitialPageSize == 10
PrefetchSize == 100
InitialHistoryLength == 20
ChainHistoryDepth == 84
FilterBatchSize == 50
BulkBatchSize == 25
PrefetchBatchSize == 10
PageBatchSize == 10
HistoryBatchSize == 5
ApyBatchSize == 3
FixedPointMultiplier == 1000000
AnnualizeTimes100 == 36525

----------------------------------------------------------------------------
(* Rationals <<n, d>>, n >= 0, d > 0, in lowest terms.                     *)

RECURSIVE GCD(_, _)
GCD(a, b) == IF b = 0 THEN a ELSE GCD(b, a % b)

Rat(n, d) == IF n = 0 THEN <<0, 1>> ELSE <<n \div GCD(n, d), d \div GCD(n, d)>>

Zero == <<0, 1>>
One == <<1, 1>>
RatAdd(x, y) == Rat(x[1] * y[2] + y[1] * x[2], x[2] * y[2])
RatDivInt(x, k) == Rat(x[1], x[2] * k)
RatLess(x, y) == x[1] * y[2] < y[1] * x[2]
Truthy(x) == x[1] # 0

(* undefined, for an optional number                                       *)
Undef == << >>
OrZero(x) == IF x = Undef THEN Zero ELSE x

RECURSIVE RatSum(_)
RatSum(s) == IF s = << >> THEN Zero ELSE RatAdd(Head(s), RatSum(Tail(s)))

RECURSIVE IntSum(_)
IntSum(s) == IF s = << >> THEN 0 ELSE Head(s) + IntSum(Tail(s))

Min(a, b) == IF a < b THEN a ELSE b
Max(a, b) == IF a > b THEN a ELSE b

----------------------------------------------------------------------------
(* Sequence helpers: the array methods the store uses.                     *)

(* Array.prototype.slice(from, to), 0-based, to exclusive                  *)
Slice(s, from, to) ==
    [k \in 1..Max(0, Min(to, Len(s)) - Min(from, Len(s))) |-> s[Min(from, Len(s)) + k]]

(* Array.prototype.filter                                                   *)
Filter(s, Keep(_)) ==
    LET kept == {k \in DOMAIN s : Keep(s[k])}
    IN [p \in 1..Cardinality(kept) |->
           s[CHOOSE k \in kept : Cardinality({m \in kept : m <= k}) = p]]

(* Array.prototype.sort with a comparator, stable since ES2019.            *)
(* After(a, b) is "compare(a, b) > 0": a sorts after b.  An element's      *)
(* place is one more than the number of elements that sort before it, or   *)
(* tie with it and stand before it.                                        *)
SortStable(s, After(_, _)) ==
    LET place(i) == 1 + Cardinality({j \in DOMAIN s :
                         \/ After(s[i], s[j])
                         \/ (~After(s[j], s[i]) /\ j < i)})
    IN [p \in DOMAIN s |-> s[CHOOSE i \in DOMAIN s : place(i) = p]]

Range(s) == {s[k] : k \in DOMAIN s}
Addresses(s) == [k \in DOMAIN s |-> s[k].address]

(* Array.prototype.find by address; the caller checks HasAddress first     *)
HasAddress(s, a) == \E k \in DOMAIN s : s[k].address = a
FindAddress(s, a) == s[CHOOSE k \in DOMAIN s : s[k].address = a /\ \A m \in 1..(k - 1) : s[m].address # a]

(* eras of a number-keyed object, in ascending key order (Object.keys /    *)
(* Object.values order of integer keys)                                    *)
RECURSIVE AscendingSeq(_)
AscendingSeq(S) ==
    IF S = {} THEN << >>
    ELSE LET m == CHOOSE x \in S : \A y \in S : x <= y
         IN <<m>> \o AscendingSeq(S \ {m})

Values(map) == [k \in DOMAIN AscendingSeq(DOMAIN map) |-> map[AscendingSeq(DOMAIN map)[k]]]

EmptyMap == << >>
Put(map, k, v) == [x \in DOMAIN map \cup {k} |-> IF x = k THEN v ELSE map[x]]
(* { ...a, ...b } on objects                                               *)
Spread(a, b) == [x \in DOMAIN a \cup DOMAIN b |-> IF x \in DOMAIN b THEN b[x] ELSE a[x]]

----------------------------------------------------------------------------
(* The remote query collaborator (typedApi): the chain data a session sees. *)
(* Eras repeat with period 3 so that any active era has a defined history. *)
(* A query answers with its data, answers nothing (present = FALSE), or    *)
(* fails; failure is chosen by the step that settles the call.             *)

ValidatorIds == 1..NumValidators

(* Session.Validators.getValue(): the collaborator's order                 *)
SessionValidators == [i \in 1..NumValidators |-> NumValidators + 1 - i]

(* ErasRewardPoints.getValue(era).individual: address -> points; an        *)
(* address without an entry earned nothing in the era                      *)
HasEraPoints(era, a) == ~(era % 3 = 1 /\ a = 2)
EraPointsOf(era, a) ==
    CASE era % 3 = 0 -> (IF a = 1 THEN 300 ELSE 100)
      [] era % 3 = 2 -> (IF a = 1 THEN 100 ELSE IF a = 2 THEN 300 ELSE 200)
      [] OTHER       -> (IF a = 1 THEN 0 ELSE 100)

ErasRewardPoints(era) ==
    LET listed == {a \in ValidatorIds : HasEraPoints(era, a)}
        individual == [a \in listed |-> EraPointsOf(era, a)]
    IN [present |-> TRUE,
        individual |-> individual,
        total |-> IntSum(Values(individual))]

(* ErasValidatorReward.getValue(era)                                       *)
ErasValidatorReward(era) == 1000

(* Staking.Validators.getValue(address): the current preferences           *)
StakingValidators(a) ==
    CASE a = 1 -> [present |-> TRUE, commission |-> Rat(1, 2), blocked |-> FALSE]
      [] a = 2 -> [present |-> TRUE, commission |-> One, blocked |-> FALSE]
      [] OTHER -> [present |-> TRUE, commission |-> Rat(1, 10), blocked |-> TRUE]

(* Staking.ErasValidatorPrefs.getValue(era, address)                       *)
ErasValidatorPrefs(era, a) ==
    CASE a = 1 -> [present |-> TRUE,
                   commission |-> (CASE era % 3 = 2 -> One
                                     [] era % 3 = 1 -> Rat(1, 2)
                                     [] OTHER -> Zero),
                   blocked |-> FALSE]
      [] a = 2 -> [present |-> TRUE, commission |-> Rat(1, 10), blocked |-> FALSE]
      [] OTHER -> [present |-> TRUE, commission |-> Rat(1, 10), blocked |-> TRUE]

(* Staking.ErasStakersOverview.getValue(era, address)                      *)
ErasStakersOverview(era, a) ==
    CASE a = 1 -> [present |-> TRUE, total |-> 1000, own |-> 100]
      [] a = 2 -> [present |-> TRUE, total |-> 500, own |-> 50]
      [] OTHER -> [present |-> era % 3 # 2, total |-> 500, own |-> 0]

----------------------------------------------------------------------------
(* Validator records and the pure computations of the store.               *)

(* null, for selectedHistoricalValidator                                    *)
Null == 0
(* null, for error; an error is <<message>> or <<message, era>>            *)
NoError == << >>
(* null / undefined, for an ErasRewardPoints answer                        *)
NoEraPoints == [present |-> FALSE, individual |-> EmptyMap, total |-> 0]

(* the object literal fetchValidatorPage and prefetchValidators build for  *)
(* an address that is not cached                                           *)
NewValidator(address, commission, blockedNominations, totalStake, ownStake, lastEraAPY, points, validatorReward) ==
    [address |-> address,
     commission |-> commission,
     blockedNominations |-> blockedNominations,
     totalStake |-> totalStake,
     ownStake |-> ownStake,
     lastEraAPY |-> OrZero(lastEraAPY),
     performance |-> [currentEraPoints |-> points,
                      previousErasPoints |-> EmptyMap,
                      averagePoints |-> Zero],
     rewards |-> [currentEraReward |-> validatorReward,
                  previousErasRewards |-> EmptyMap,
                  apyByEra |-> EmptyMap,
                  averageAPY |-> Zero,
                  activeOnlyAverageAPY |-> Zero],
     historicalCommission |-> EmptyMap,
     averageCommission |-> commission]

(* the record built in the catch branch: commission 0, no stake            *)
DefaultValidator(address, lastEraAPY, points) ==
    NewValidator(address, Zero, FALSE, 0, 0, lastEraAPY, points, 0)

(* prefs?.commission || 0n, prefs?.blocked || false                        *)
CommissionOf(prefs) == IF prefs.present THEN prefs.commission ELSE Zero
BlockedOf(prefs) == prefs.present /\ prefs.blocked

(* a validator's share of an era's reward in 10^-6 fixed point:            *)
(* ratioFixed = floor(points / total * 10^6); ratioFixed * reward / 10^6   *)
FixedPointReward(points, totalPoints, eraReward) ==
    LET ratioFixed == (points * FixedPointMultiplier) \div totalPoints
    IN (ratioFixed * eraReward) \div FixedPointMultiplier

(* the current-era reward of fetchValidatorPage and prefetchValidators     *)
CurrentEraRewardOf(points, currentEraReward, currentEraPoints) ==
    IF currentEraReward # 0 /\ points > 0
       /\ currentEraPoints.present /\ currentEraPoints.total > 0
    THEN FixedPointReward(points, currentEraPoints.total, currentEraReward)
    ELSE 0

(* Math.floor(Number(reward) * (points / totalPoints)) in IEEE 754 double  *)
(* arithmetic (53-bit significands, round to nearest, ties to even), for   *)
(* 0 <= points <= totalPoints < 2^13 and a reward below 2^14.  When        *)
(* reward * points / totalPoints is not a whole number, the two roundings  *)
(* (of the quotient, then of the product) are too small to move the        *)
(* product across a whole number and the result is the exact floor.  When  *)
(* it is a whole number N, the product comes out below N exactly when the  *)
(* quotient was rounded down and the product's deficit                     *)
(* reward * rem / (totalPoints * 2^(52 + zeros)) exceeds half the spacing  *)
(* 2^(bits - 53) of the doubles below N; the result is then N - 1.  Here   *)
(* zeros is the place of the quotient's first binary digit, rem the        *)
(* remainder left after its 53 digits, bits the length of N - 1.           *)
FloorOfFloatProduct(reward, points, totalPoints) ==
    LET Floor[R \in Nat, p \in Nat, P \in Nat] ==
            LET Zeros[z \in Nat] == IF p * 2^z >= P THEN z ELSE Zeros[z + 1]
                PowerMod[k \in Nat] == IF k = 0 THEN 1 % P
                                      ELSE IF k % 2 = 0 THEN (PowerMod[k \div 2]^2) % P
                                      ELSE (2 * PowerMod[k - 1]) % P
                Bits[n \in Nat] == IF n = 0 THEN 0 ELSE 1 + Bits[n \div 2]
                Below[N \in Nat, zeros \in Nat, rem \in Nat] ==
                    /\ rem # 0
                    /\ 2 * rem < P
                    /\ 4 * R * rem > P * 2^(Bits[N - 1] + zeros)
                Whole[N \in Nat, zeros \in Nat] ==
                    IF Below[N, zeros, (p * PowerMod[52 + zeros]) % P] THEN N - 1 ELSE N
            IN IF (R * p) % P # 0 THEN (R * p) \div P
               ELSE Whole[(R * p) \div P, Zeros[1]]
    IN IF reward = 0 \/ points = 0 THEN 0
       ELSE Floor[reward, points, totalPoints]

(* the APY formula (bulk job and calculateValidatorAPY), for points > 0,   *)
(* total points > 0 and stake > 0, with its intermediate amounts.  With    *)
(* commission = n/d one of 0, 1/10, 1/2 and 1, floor(commission * 10^9) is *)
(* 10^9 * n / d, and validatorReward * (10^9 - that) / 10^9 in bigint      *)
(* arithmetic is floor(validatorReward * (d - n) / d).  The last two       *)
(* floating-point operations (the return rate and its annualisation) are   *)
(* exact here.                                                             *)
ApyParts(eraReward, validatorPoints, totalEraPoints, commission, totalStake) ==
    LET Parts[validatorReward \in Nat] ==
            LET nominatorReward ==
                    (validatorReward * (commission[2] - commission[1])) \div commission[2]
            IN [validatorReward |-> validatorReward,
                nominatorReward |-> nominatorReward,
                apy |-> Rat(nominatorReward * AnnualizeTimes100, totalStake)]
    IN Parts[FloorOfFloatProduct(eraReward, validatorPoints, totalEraPoints)]

ApyOf(eraReward, validatorPoints, totalEraPoints, commission, totalStake) ==
    ApyParts(eraReward, validatorPoints, totalEraPoints, commission, totalStake).apy

(* mean of a sequence of rationals, or the default when it is empty        *)
MeanOr(values, default) ==
    IF Len(values) > 0 THEN RatDivInt(RatSum(values), Len(values)) ELSE default

IntsAsRats(values) == [k \in DOMAIN values |-> Rat(values[k], 1)]

----------------------------------------------------------------------------
(* The store.                                                              *)

InitialState ==
    [currentPage |-> 1,
     pageSize |-> InitialPageSize,
     totalValidators |-> 0,
     allValidators |-> << >>,
     filteredValidators |-> << >>,
     displayedValidators |-> << >>,
     validatorCache |-> EmptyMap,
     prefetchSize |-> PrefetchSize,
     activeEra |-> 0,
     lastEra |-> 0,
     currentEraReward |-> 0,
     currentEraPoints |-> NoEraPoints,
     historicalEras |-> << >>,
     historyLength |-> InitialHistoryLength,
     maxHistoryLength |-> ChainHistoryDepth,
     selectedHistoricalValidator |-> Null,
     includeFullCommission |-> FALSE,
     includeBlockedNominations |-> FALSE,
     loading |-> FALSE,
     loadingPage |-> FALSE,
     loadingAPY |-> FALSE,
     loadingHistoricalData |-> FALSE,
     calculatingLastEraAPY |-> FALSE,
     lastEraAPYCalculated |-> FALSE,
     error |-> NoError]

(* the fields of the store, by their names                                 *)
currentPage == state.currentPage
pageSize == state.pageSize
totalValidators == state.totalValidators
allValidators == state.allValidators
filteredValidators == state.filteredValidators
displayedValidators == state.displayedValidators
validatorCache == state.validatorCache
historicalEras == state.historicalEras
historyLength == state.historyLength
includeFullCommission == state.includeFullCommission
includeBlockedNominations == state.includeBlockedNominations

(* A configuration [state, jobs, timers, ev]: the store, the in-flight     *)
(* jobs, the timers and the completions of the step under construction.    *)
(* An operation of the store maps a configuration to the one it leaves     *)
(* when it next awaits a remote call.                                      *)
(* set(partial)                                                            *)
Set(c, partial) == [c EXCEPT !.state = Spread(c.state, partial)]

(* Variant of SetCached: the record replaces the cache.                    *)
SetCachedAlone(c, address, validator) ==
    Set(c, [validatorCache |-> Put(EmptyMap, address, validator)])

(* validatorCache: { ...state.validatorCache, [address]: validator }       *)
SetCached(c, address, validator) ==
    Set(c, [validatorCache |-> Put(c.state.validatorCache, address, validator)])

IsCached(cache, a) == a \in DOMAIN cache

Emit(c, event) == [c EXCEPT !.ev = @ \cup {event}]

(* A job that awaits a remote call joins the in-flight invocations, a bag  *)
(* of [op, cont, loc].                                                     *)
Suspend(c, op, cont, loc) ==
    LET job == [op |-> op, cont |-> cont, loc |-> loc]
    IN [c EXCEPT !.jobs = Put(c.jobs, job,
                              IF job \in DOMAIN c.jobs THEN c.jobs[job] + 1 ELSE 1)]

(* the configuration a step of job j starts from: j leaves the in-flight   *)
(* invocations (it joins them again if it awaits again).  j = Caller: a    *)
(* call of the user interface or a timer.                                  *)
Caller == [op |-> "caller"]
ConfigAt(j) ==
    [state |-> state,
     jobs |-> [i \in {x \in DOMAIN jobs : x # j \/ jobs[x] > 1} |->
                  IF i = j THEN jobs[i] - 1 ELSE jobs[i]],
     timers |-> timers,
     ev |-> {}]

Event(op, arg) == [op |-> op, arg |-> arg]

(* setTimeout(callback, delay)                                             *)
SetTimeout(c, kind) == [c EXCEPT !.timers[kind] = @ + 1]

----------------------------------------------------------------------------
(* fetchValidatorPage(page)                                                *)

(* what follows the page fetch in its caller: the timers of                *)
(* fetchAllValidators ("bootstrap"), nothing after setFilterOptions' then  *)
(* ("filter"), nothing otherwise ("none")                                  *)
PageReturns(c, cont) ==
    CASE cont = "bootstrap" ->
            Emit(SetTimeout(SetTimeout(c, "apy1000"), "prefetch2000"),
                 Event("fetchAllValidators", 0))
      [] cont = "filter" -> Emit(c, Event("setFilterOptions", 0))
      [] OTHER -> c

(* set({ displayedValidators: detailedValidators, loadingPage: false })    *)
(* the events of the return name the entries that took the catch branch    *)
PageDone(c, cont, loc) ==
    LET c1 == Set(c, [displayedValidators |-> loc.detailedValidators,
                      loadingPage |-> FALSE])
        c2 == [c1 EXCEPT !.ev = @ \cup {Event("defaultRecord", a) : a \in loc.defaulted}
                                   \cup {Event("pageItemFailed", a) : a \in loc.failed}]
    IN PageReturns(Emit(c2, Event("fetchValidatorPage", loc.page)), cont)

(* Variant of CachedPageItem: a record whose APY changed is built anew,    *)
(* with the default commission.                                            *)
CachedPageItemRebuilt(cache, entry) ==
    LET cached == cache[entry.address]
    IN IF entry.lastEraAPY # Undef /\ cached.lastEraAPY # entry.lastEraAPY
       THEN [cached EXCEPT !.lastEraAPY = entry.lastEraAPY, !.commission = Zero]
       ELSE cached

(* the record a cached entry resolves to                                   *)
CachedPageItem(cache, entry) ==
    LET cached == cache[entry.address]
    IN IF entry.lastEraAPY # Undef /\ cached.lastEraAPY # entry.lastEraAPY
       THEN [cached EXCEPT !.lastEraAPY = entry.lastEraAPY]
       ELSE cached

(* the record an entry that is not cached resolves to, by the outcome of   *)
(* its remote calls                                                        *)
FetchedPageItem(st, loc, entry, outcome) ==
    LET prefs == StakingValidators(entry.address)
        overview == ErasStakersOverview(loc.activeEra, entry.address)
        staked == outcome = "ok" /\ overview.present /\ overview.total > 0
    IN IF outcome = "failed"
       THEN DefaultValidator(entry.address, entry.lastEraAPY, entry.points)
       ELSE NewValidator(entry.address, CommissionOf(prefs), BlockedOf(prefs),
                         IF staked THEN overview.total ELSE 0,
                         IF staked THEN overview.own ELSE 0,
                         entry.lastEraAPY, entry.points,
                         CurrentEraRewardOf(entry.points, st.currentEraReward,
                                            loc.currentEraPoints))

PageBatch(loc) == Slice(loc.pageValidators, loc.i, loc.i + PageBatchSize)

(* the for loop from the batch at loc.i up to the next await: the cached   *)
(* entries of a batch resolve at once (and write the cache when their APY  *)
(* changed), the others are awaited                                        *)
RECURSIVE PageBatches(_, _, _)
PageBatches(c, cont, loc) ==
    IF loc.i >= Len(loc.pageValidators) THEN PageDone(c, cont, loc)
    ELSE
    LET batch == PageBatch(loc)
        hits == {k \in DOMAIN batch : IsCached(loc.validatorCache, batch[k].address)}
        resolved == [a \in {batch[k].address : k \in hits} |->
                        CachedPageItem(loc.validatorCache, FindAddress(batch, a))]
        changed == {a \in DOMAIN resolved : resolved[a] # loc.validatorCache[a]}
        c1 == Set(c, [validatorCache |->
                  Spread(c.state.validatorCache, [a \in changed |-> resolved[a]])])
        pending == {batch[k].address : k \in DOMAIN batch \ hits}
    IN IF pending = {}
       THEN PageBatches(c1, cont,
                [loc EXCEPT !.detailedValidators =
                                @ \o [k \in DOMAIN batch |-> resolved[batch[k].address]],
                            !.i = @ + PageBatchSize])
       ELSE Suspend(c1, "fetchValidatorPage", cont,
                [loc EXCEPT !.pending = pending, !.results = resolved])

fetchValidatorPage(c, page, cont) ==
    LET st == c.state IN
    IF Len(st.filteredValidators) = 0
    THEN PageReturns(Emit(c, Event("fetchValidatorPage", page)), cont)
    ELSE PageBatches(
            Set(c, [loadingPage |-> TRUE, currentPage |-> page]),
            cont,
            [page |-> page,
             pageValidators |-> Slice(st.filteredValidators, (page - 1) * st.pageSize,
                                      (page - 1) * st.pageSize + st.pageSize),
             activeEra |-> st.activeEra,
             currentEraPoints |-> st.currentEraPoints,
             validatorCache |-> st.validatorCache,
             i |-> 0,
             pending |-> {},
             results |-> EmptyMap,
             defaulted |-> {},
             failed |-> {},
             detailedValidators |-> << >>])

(* one awaited entry of the current batch settles: it writes its record to *)
(* the cache; the last one to settle completes the batch                   *)
PageItemSettles(c, cont, loc, a, outcome) ==
    LET batch == PageBatch(loc)
        record == FetchedPageItem(c.state, loc, FindAddress(batch, a), outcome)
        c1 == SetCached(c, a, record)
        results == Put(loc.results, a, record)
        defaulted == IF outcome = "failed" THEN loc.defaulted \cup {a} ELSE loc.defaulted
        failed == IF outcome = "ok" THEN loc.failed ELSE loc.failed \cup {a}
    IN IF loc.pending = {a}
       THEN PageBatches(c1, cont,
                [loc EXCEPT !.detailedValidators =
                                @ \o [k \in DOMAIN batch |-> results[batch[k].address]],
                            !.i = @ + PageBatchSize,
                            !.pending = {},
                            !.results = EmptyMap,
                            !.defaulted = defaulted,
                            !.failed = failed])
       ELSE Suspend(c1, "fetchValidatorPage", cont,
                [loc EXCEPT !.pending = @ \ {a}, !.results = results,
                            !.defaulted = defaulted, !.failed = failed])

----------------------------------------------------------------------------
(* applyFilters()                                                          *)

(* the two membership tests of applyFilters                                *)
PassesFilters(loc, commission, blockedNominations) ==
    /\ ~(~loc.includeFullCommission /\ ~RatLess(commission, One))
    /\ ~(~loc.includeBlockedNominations /\ blockedNominations)

FilteredEntry(v, lastEraAPY) ==
    [address |-> v.address, points |-> v.points, lastEraAPY |-> lastEraAPY]

(* cached?.lastEraAPY || 0 on the cache the invocation read at its start   *)
CachedApyOrZero(cache, a) == IF IsCached(cache, a) THEN cache[a].lastEraAPY ELSE Zero

(* the result of one validator of a batch: << >> for null, else <<entry>>. *)
(* failed: the preference query of a validator that is not cached threw.   *)
FilterItem(loc, v, failed) ==
    IF IsCached(loc.validatorCache, v.address)
    THEN LET cached == loc.validatorCache[v.address]
         IN IF PassesFilters(loc, cached.commission, cached.blockedNominations)
            THEN <<FilteredEntry(v, cached.lastEraAPY)>>
            ELSE << >>
    ELSE IF failed THEN <<FilteredEntry(v, Zero)>>
    ELSE LET prefs == StakingValidators(v.address)
         IN IF PassesFilters(loc, CommissionOf(prefs), BlockedOf(prefs))
            THEN <<FilteredEntry(v, Zero)>>
            ELSE << >>

RECURSIVE Flatten(_)
Flatten(ss) == IF ss = << >> THEN << >> ELSE Head(ss) \o Flatten(Tail(ss))

FilterBatch(loc) == Slice(loc.allValidators, loc.i, loc.i + FilterBatchSize)

(* Variant of FilterBatchResults: one catch around the whole batch, so     *)
(* that a failing query sends every validator of the batch to the catch    *)
(* branch.                                                                 *)
FilterBatchResultsOneCatch(loc, failures) ==
    LET batch == FilterBatch(loc)
    IN Flatten([k \in DOMAIN batch |-> FilterItem(loc, batch[k], failures # {})])

(* filteredResults.push(...batchResults.filter(Boolean))                   *)
FilterBatchResults(loc, failures) ==
    LET batch == FilterBatch(loc)
    IN Flatten([k \in DOMAIN batch |->
                   FilterItem(loc, batch[k], batch[k].address \in failures)])

(* the sort of applyFilters: by the cached lastEraAPY, highest first       *)
SortByCachedApy(cache, s) ==
    LET After(a, b) == RatLess(CachedApyOrZero(cache, a.address),
                               CachedApyOrZero(cache, b.address))
    IN SortStable(s, After)

(* Variant of FiltersPatch: the total counts the validators before the     *)
(* filters.                                                                *)
FiltersPatchCountsAll(loc, filteredResults) ==
    [filteredValidators |-> filteredResults,
     totalValidators |-> Len(loc.allValidators),
     loadingPage |-> FALSE]

(* the partial state applyFilters installs                                 *)
FiltersPatch(loc, filteredResults) ==
    [filteredValidators |-> filteredResults,
     totalValidators |-> Len(filteredResults),
     loadingPage |-> FALSE]

(* Variant of FiltersDone: applyFilters writes the cache it read at its    *)
(* start back with its result.                                             *)
FiltersDoneWritesCache(c, cont, loc) ==
    LET filteredResults ==
            IF loc.lastEraAPYCalculated
            THEN SortByCachedApy(loc.validatorCache, loc.filteredResults)
            ELSE loc.filteredResults
        c1 == Set(Set(c, FiltersPatch(loc, filteredResults)),
                  [validatorCache |-> loc.validatorCache])
        newValidatorsWithoutAPY ==
            \E k \in DOMAIN filteredResults :
                ~IsCached(loc.validatorCache, filteredResults[k].address)
        c2 == IF newValidatorsWithoutAPY /\ ~c1.state.calculatingLastEraAPY
              THEN SetTimeout(c1, "apy500")
              ELSE c1
        c3 == Emit([c2 EXCEPT !.ev = @ \cup {Event("defaultEntry", a) : a \in loc.defaulted}],
                   Event("applyFilters", 0))
    IN IF cont = "none" THEN c3 ELSE fetchValidatorPage(c3, 1, cont)

(* from the sort to the return of applyFilters, and on to what its caller  *)
(* does next: fetchValidatorPage(1) after setFilterOptions ("filter") and  *)
(* in fetchAllValidators ("bootstrap"); the events of the return name the  *)
(* entries that took the catch branch                                      *)
FiltersDone(c, cont, loc) ==
    LET filteredResults ==
            IF loc.lastEraAPYCalculated
            THEN SortByCachedApy(loc.validatorCache, loc.filteredResults)
            ELSE loc.filteredResults
        c1 == Set(c, FiltersPatch(loc, filteredResults))
        newValidatorsWithoutAPY ==
            \E k \in DOMAIN filteredResults :
                ~IsCached(loc.validatorCache, filteredResults[k].address)
        c2 == IF newValidatorsWithoutAPY /\ ~c1.state.calculatingLastEraAPY
              THEN SetTimeout(c1, "apy500")
              ELSE c1
        c3 == Emit([c2 EXCEPT !.ev = @ \cup {Event("defaultEntry", a) : a \in loc.defaulted}],
                   Event("applyFilters", 0))
    IN IF cont = "none" THEN c3 ELSE fetchValidatorPage(c3, 1, cont)

(* the for loop from the batch at loc.i up to the next await: a batch      *)
(* whose validators are all cached needs no remote call                    *)
RECURSIVE FilterBatches(_, _, _)
FilterBatches(c, cont, loc) ==
    IF loc.i >= Len(loc.allValidators) THEN FiltersDone(c, cont, loc)
    ELSE
    LET batch == FilterBatch(loc)
        pending == {batch[k].address : k \in
                       {k \in DOMAIN batch : ~IsCached(loc.validatorCache, batch[k].address)}}
    IN IF pending = {}
       THEN FilterBatches(c, cont,
                [loc EXCEPT !.filteredResults = @ \o FilterBatchResults(loc, {}),
                            !.i = @ + FilterBatchSize])
       ELSE Suspend(c, "applyFilters", cont, [loc EXCEPT !.pending = pending])

applyFilters(c, cont) ==
    LET st == c.state
        loc == [allValidators |-> st.allValidators,
                includeFullCommission |-> st.includeFullCommission,
                includeBlockedNominations |-> st.includeBlockedNominations,
                validatorCache |-> st.validatorCache,
                lastEraAPYCalculated |-> st.lastEraAPYCalculated,
                i |-> 0,
                pending |-> {},
                defaulted |-> {},
                filteredResults |-> << >>]
        c1 == Set(c, [loadingPage |-> TRUE])
    IN IF loc.includeFullCommission /\ loc.includeBlockedNominations
       THEN FiltersDone(c1, cont,
                [loc EXCEPT !.filteredResults =
                    [k \in DOMAIN st.allValidators |->
                        FilteredEntry(st.allValidators[k], Undef)]])
       ELSE FilterBatches(c1, cont, loc)

(* the awaited preference queries of the current batch have settled, those *)
(* of the validators in failures by failing                                *)
FilterBatchSettles(c, cont, loc, failures) ==
    FilterBatches(c, cont,
        [loc EXCEPT !.filteredResults = @ \o FilterBatchResults(loc, failures),
                    !.i = @ + FilterBatchSize,
                    !.pending = {},
                    !.defaulted = @ \cup failures])

----------------------------------------------------------------------------
(* calculateLastEraAPYForAllValidators(): the bulk last-era APY job        *)

(* a validator whose APY the job takes from the cache it read at its start *)
HasCachedApy(cache, a) == IsCached(cache, a) /\ RatLess(Zero, cache[a].lastEraAPY)

(* the result of one validator: [lastEraAPY, validatorInstance], the       *)
(* instance being << >> for null and <<record>> otherwise                  *)
BulkItem(loc, a, failed) ==
    LET existing == IF IsCached(loc.validatorCache, a)
                    THEN <<loc.validatorCache[a]>> ELSE << >>
        validatorPoints == IF a \in DOMAIN loc.eraPoints.individual
                           THEN loc.eraPoints.individual[a] ELSE 0
        prefs == ErasValidatorPrefs(loc.lastEra, a)
        overview == ErasStakersOverview(loc.lastEra, a)
        apy == IF validatorPoints > 0
               THEN ApyOf(loc.eraReward, validatorPoints, loc.eraPoints.total,
                          CommissionOf(prefs), overview.total)
               ELSE Zero
    IN IF HasCachedApy(loc.validatorCache, a)
       THEN [lastEraAPY |-> existing[1].lastEraAPY, validatorInstance |-> existing]
       ELSE IF failed
       THEN [lastEraAPY |-> Zero, validatorInstance |-> << >>]
       ELSE IF ~overview.present \/ overview.total = 0
       THEN [lastEraAPY |-> Zero,
             validatorInstance |->
                 IF existing = << >> THEN << >>
                 ELSE <<[existing[1] EXCEPT !.lastEraAPY = Zero]>>]
       ELSE [lastEraAPY |-> apy,
             validatorInstance |->
                 IF existing = << >> THEN << >>
                 ELSE <<[existing[1] EXCEPT !.lastEraAPY = apy,
                                            !.commission = CommissionOf(prefs),
                                            !.blockedNominations = BlockedOf(prefs)]>>]

BulkBatch(loc) == Slice(loc.allValidators, loc.i, loc.i + BulkBatchSize)

(* Variant of BulkPatch: the filtered projection is built from the entries *)
(* the job collected in validatorsWithAPY, which carry points 0.           *)
BulkPatchFromResults(st, apyMap) ==
    LET apyOf(a) == IF a \in DOMAIN apyMap THEN apyMap[a] ELSE Zero
        updatedFiltered ==
            [k \in DOMAIN st.filteredValidators |->
                [address |-> st.filteredValidators[k].address,
                 points |-> 0,
                 lastEraAPY |-> apyOf(st.filteredValidators[k].address)]]
        After(a, b) == RatLess(OrZero(a.lastEraAPY), OrZero(b.lastEraAPY))
    IN [filteredValidators |-> SortStable(updatedFiltered, After),
        displayedValidators |->
            [k \in DOMAIN st.displayedValidators |->
                [st.displayedValidators[k] EXCEPT
                    !.lastEraAPY = apyOf(st.displayedValidators[k].address)]],
        lastEraAPYCalculated |-> TRUE,
        calculatingLastEraAPY |-> FALSE]

(* the final set of the job: the filtered projection takes the computed    *)
(* APYs and is sorted by them, highest first; the displayed records take   *)
(* them too                                                                *)
BulkPatch(st, apyMap) ==
    LET apyOf(a) == IF a \in DOMAIN apyMap THEN apyMap[a] ELSE Zero
        updatedFiltered ==
            [k \in DOMAIN st.filteredValidators |->
                [st.filteredValidators[k] EXCEPT
                    !.lastEraAPY = apyOf(st.filteredValidators[k].address)]]
        After(a, b) == RatLess(OrZero(a.lastEraAPY), OrZero(b.lastEraAPY))
    IN [filteredValidators |-> SortStable(updatedFiltered, After),
        displayedValidators |->
            [k \in DOMAIN st.displayedValidators |->
                [st.displayedValidators[k] EXCEPT
                    !.lastEraAPY = apyOf(st.displayedValidators[k].address)]],
        lastEraAPYCalculated |-> TRUE,
        calculatingLastEraAPY |-> FALSE]

(* after the loop: the lists are updated and page 1 is fetched again; the  *)
(* job has no code after that await; the events of the end of the loop     *)
(* name the validators whose queries failed                                *)
BulkDone(c, loc) ==
    LET c1 == Set(c, BulkPatch(c.state, loc.validatorsWithAPY))
        c2 == [c1 EXCEPT !.ev = @ \cup {Event("bulkItemFailed", a) : a \in loc.failed}]
    IN fetchValidatorPage(
           Emit(c2, Event("calculateLastEraAPYForAllValidators", 0)), 1, "none")

(* a batch has settled: its results join validatorsWithAPY and             *)
(* newCacheEntries, and the entries collected so far are written over the  *)
(* current cache                                                           *)
BulkBatchResults(c, loc, failures) ==
    LET batch == BulkBatch(loc)
        result(k) == BulkItem(loc, batch[k].address, batch[k].address \in failures)
        withInstance == {k \in DOMAIN batch : result(k).validatorInstance # << >>}
        newCacheEntries ==
            Spread(loc.newCacheEntries,
                   [a \in {batch[k].address : k \in withInstance} |->
                       BulkItem(loc, a, a \in failures).validatorInstance[1]])
        validatorsWithAPY ==
            Spread(loc.validatorsWithAPY,
                   [a \in {batch[k].address : k \in DOMAIN batch} |->
                       BulkItem(loc, a, a \in failures).lastEraAPY])
    IN [c |-> IF DOMAIN newCacheEntries # {}
              THEN Set(c, [validatorCache |->
                               Spread(c.state.validatorCache, newCacheEntries)])
              ELSE c,
        loc |-> [loc EXCEPT !.newCacheEntries = newCacheEntries,
                            !.validatorsWithAPY = validatorsWithAPY,
                            !.i = @ + BulkBatchSize,
                            !.pending = {},
                            !.failed = @ \cup failures]]

(* the for loop from the batch at loc.i up to the next await               *)
RECURSIVE BulkBatches(_, _)
BulkBatches(c, loc) ==
    IF loc.i >= Len(loc.allValidators) THEN BulkDone(c, loc)
    ELSE
    LET batch == BulkBatch(loc)
        pending == {batch[k].address : k \in
                       {k \in DOMAIN batch : ~HasCachedApy(loc.validatorCache, batch[k].address)}}
        next == BulkBatchResults(c, loc, {})
    IN IF pending = {}
       THEN BulkBatches(next.c, next.loc)
       ELSE Suspend(c, "calculateLastEraAPYForAllValidators", "none",
                    [loc EXCEPT !.pending = pending])

calculateLastEraAPYForAllValidators(c) ==
    LET st == c.state IN
    Suspend(Set(c, [calculatingLastEraAPY |-> TRUE, lastEraAPYCalculated |-> FALSE]),
            "calculateLastEraAPYForAllValidators", "none",
            [pc |-> "header",
             allValidators |-> st.allValidators,
             validatorCache |-> st.validatorCache,
             lastEra |-> st.lastEra,
             eraReward |-> 0,
             eraPoints |-> NoEraPoints,
             i |-> 0,
             pending |-> {},
             failed |-> {},
             newCacheEntries |-> EmptyMap,
             validatorsWithAPY |-> EmptyMap])

(* the era reward and era points queries have settled.  outcome "failed":  *)
(* one of them threw; "absent": one of them answered nothing.              *)
BulkHeaderSettles(c, loc, outcome) ==
    LET eraReward == ErasValidatorReward(loc.lastEra)
        eraPoints == ErasRewardPoints(loc.lastEra)
    IN IF outcome = "failed"
       THEN Set(c, [calculatingLastEraAPY |-> FALSE,
                    error |-> <<"calculation error for apy calcs">>])
       ELSE IF outcome = "absent" \/ eraReward = 0
               \/ ~eraPoints.present \/ eraPoints.total = 0
       THEN Set(c, [calculatingLastEraAPY |-> FALSE])
       ELSE BulkBatches(c, [loc EXCEPT !.pc = "batch",
                                       !.eraReward = eraReward,
                                       !.eraPoints = eraPoints])

BulkBatchSettles(c, loc, failures) ==
    LET next == BulkBatchResults(c, loc, failures)
    IN BulkBatches(next.c, next.loc)

----------------------------------------------------------------------------
(* prefetchValidators()                                                    *)

PrefetchBatch(loc) == Slice(loc.toPrefetch, loc.i, loc.i + PrefetchBatchSize)

(* the for loop from the batch at loc.i on: every entry is awaited         *)
PrefetchBatches(c, loc) ==
    IF loc.i >= Len(loc.toPrefetch)
    THEN Emit([c EXCEPT !.ev = @ \cup {Event("prefetchItemFailed", a) : a \in loc.failed}],
              Event("prefetchValidators", 0))
    ELSE Suspend(c, "prefetchValidators", "none",
                 [loc EXCEPT !.pending = Range(Addresses(PrefetchBatch(loc)))])

prefetchValidators(c) ==
    LET st == c.state
        NotCached(v) == ~IsCached(st.validatorCache, v.address)
        toPrefetch == Slice(Filter(st.filteredValidators, NotCached), 0, st.prefetchSize)
    IN IF Len(st.filteredValidators) = 0 \/ Len(toPrefetch) = 0
       THEN Emit(c, Event("prefetchValidators", 0))
       ELSE PrefetchBatches(c,
                [toPrefetch |-> toPrefetch,
                 activeEra |-> st.activeEra,
                 currentEraPoints |-> st.currentEraPoints,
                 i |-> 0,
                 pending |-> {},
                 failed |-> {},
                 newCacheEntries |-> EmptyMap])

(* a batch has settled, each entry by its outcome (the record is built as  *)
(* in fetchValidatorPage); every entry collected so far is written over    *)
(* the current cache                                                       *)
PrefetchBatchSettles(c, loc, outcomes) ==
    LET batch == PrefetchBatch(loc)
        newCacheEntries ==
            Spread(loc.newCacheEntries,
                   [a \in loc.pending |->
                       FetchedPageItem(c.state, loc, FindAddress(batch, a), outcomes[a])])
    IN PrefetchBatches(
            Set(c, [validatorCache |-> Spread(c.state.validatorCache, newCacheEntries)]),
            [loc EXCEPT !.newCacheEntries = newCacheEntries,
                        !.i = @ + PrefetchBatchSize,
                        !.pending = {},
                        !.failed = @ \cup {a \in loc.pending : outcomes[a] # "ok"}])

----------------------------------------------------------------------------
(* fetchAllValidators()                                                    *)

(* Variant of Ranking: the entries are left in the order of                *)
(* Session.Validators.                                                     *)
RankingUnsorted(validatorAddresses, eraRewardPoints) ==
    LET pointsOf(a) == IF eraRewardPoints.present /\ a \in DOMAIN eraRewardPoints.individual
                       THEN eraRewardPoints.individual[a] ELSE 0
    IN [k \in DOMAIN validatorAddresses |->
           [address |-> validatorAddresses[k],
            points |-> pointsOf(validatorAddresses[k])]]

(* the ranking: one entry per address of the validator set with its points *)
(* of the active era (0 without an entry), sorted by points, highest first *)
Ranking(validatorAddresses, eraRewardPoints) ==
    LET pointsOf(a) == IF eraRewardPoints.present /\ a \in DOMAIN eraRewardPoints.individual
                       THEN eraRewardPoints.individual[a] ELSE 0
        After(a, b) == a.points < b.points
    IN SortStable([k \in DOMAIN validatorAddresses |->
                      [address |-> validatorAddresses[k],
                       points |-> pointsOf(validatorAddresses[k])]],
                  After)

fetchAllValidators(c) ==
    Suspend(Set(c, [loading |-> TRUE, error |-> NoError]),
            "fetchAllValidators", "none", [pc |-> "queries"])

(* Variant of BootstrapSettlesAt: the answer of the active era query is    *)
(* not tested, so that a session whose query answered nothing goes on with *)
(* active era 0.                                                           *)
BootstrapSettlesAtUntested(c, loc, outcome, activeEra) ==
    LET era == IF outcome = "absent" THEN 0 ELSE activeEra
        eraRewardPoints == ErasRewardPoints(era)
    IN IF outcome = "failed"
       THEN Emit(Set(c, [error |-> <<"remote call failed">>, loading |-> FALSE]),
                 Event("fetchAllValidators", 0))
       ELSE applyFilters(
                Set(c, [allValidators |-> Ranking(SessionValidators, eraRewardPoints),
                        activeEra |-> era,
                        lastEra |-> era - 1,
                        maxHistoryLength |-> Min(ChainHistoryDepth, era),
                        currentEraReward |-> ErasValidatorReward(era),
                        currentEraPoints |-> eraRewardPoints,
                        loading |-> FALSE]),
                "bootstrap")

(* the four bootstrap queries have settled.  "failed": one of them threw;  *)
(* "absent": the active era query answered nothing; otherwise the active   *)
(* era query answered activeEra.                                           *)
BootstrapSettlesAt(c, loc, outcome, activeEra) ==
    LET eraRewardPoints == ErasRewardPoints(activeEra)
    IN IF outcome = "failed"
       THEN Emit(Set(c, [error |-> <<"remote call failed">>, loading |-> FALSE]),
                 Event("fetchAllValidators", 0))
       ELSE IF outcome = "absent"
       THEN Emit(Set(c, [error |-> <<"failed gettin the active era...">>,
                         loading |-> FALSE]),
                 Event("fetchAllValidators", 0))
       ELSE applyFilters(
                Set(c, [allValidators |-> Ranking(SessionValidators, eraRewardPoints),
                        activeEra |-> activeEra,
                        lastEra |-> activeEra - 1,
                        maxHistoryLength |-> Min(ChainHistoryDepth, activeEra),
                        currentEraReward |-> ErasValidatorReward(activeEra),
                        currentEraPoints |-> eraRewardPoints,
                        loading |-> FALSE]),
                "bootstrap")

BootstrapSettles(c, loc, outcome) == BootstrapSettlesAt(c, loc, outcome, ChainActiveEra)

----------------------------------------------------------------------------
(* calculateAverages(validatorAddress)                                     *)

ReplaceAddress(s, a, record) ==
    [k \in DOMAIN s |-> IF s[k].address = a THEN record ELSE s[k]]

(* the displayed record with its averages recomputed over historicalEras:  *)
(* points and commission over the eras with points > 0, APY over the eras  *)
(* with a nonzero APY                                                      *)
WithAverages(validator, eras) ==
    LET points == validator.performance.previousErasPoints
        IsActive(era) == era \in DOMAIN points /\ points[era] > 0
        active == Filter(eras, IsActive)
        HasCommission(era) == era \in DOMAIN validator.historicalCommission
        withCommission == Filter(active, HasCommission)
        apys == validator.rewards.apyByEra
        HasApy(era) == era \in DOMAIN apys /\ Truthy(apys[era])
        withApy == Filter(eras, HasApy)
    IN [validator EXCEPT
           !.performance.averagePoints =
               MeanOr([k \in DOMAIN active |-> Rat(points[active[k]], 1)], Zero),
           !.rewards.averageAPY =
               MeanOr([k \in DOMAIN withApy |-> apys[withApy[k]]], Zero),
           !.averageCommission =
               MeanOr([k \in DOMAIN withCommission |->
                          validator.historicalCommission[withCommission[k]]],
                      validator.commission)]

calculateAverages(c, a) ==
    LET st == c.state IN
    IF ~HasAddress(st.displayedValidators, a) THEN c
    ELSE LET updated == WithAverages(FindAddress(st.displayedValidators, a),
                                     st.historicalEras)
         IN SetCached(
                Set(c, [displayedValidators |->
                            ReplaceAddress(st.displayedValidators, a, updated)]),
                a, updated)

----------------------------------------------------------------------------
(* calculateValidatorAPY(validatorAddress)                                 *)

ApyBatch(loc) == Slice(loc.historicalEras, loc.i, loc.i + ApyBatchSize)

(* the APY of one era: << >> when the item returns without an entry        *)
(* (nothing answered, no points, no stake, or a failed query), <<apy>>     *)
(* otherwise                                                               *)
EraApy(validator, a, era, failed) ==
    LET eraReward == ErasValidatorReward(era)
        eraPoints == ErasRewardPoints(era)
        validatorPoints == IF a \in DOMAIN eraPoints.individual
                           THEN eraPoints.individual[a] ELSE 0
        commission ==
            IF era \in DOMAIN validator.historicalCommission
               /\ Truthy(validator.historicalCommission[era])
            THEN validator.historicalCommission[era]
            ELSE validator.commission
        overview == ErasStakersOverview(era, a)
    IN IF failed \/ eraReward = 0 \/ ~eraPoints.present
          \/ validatorPoints = 0 \/ eraPoints.total = 0
          \/ ~overview.present \/ overview.total = 0
       THEN << >>
       ELSE <<ApyOf(eraReward, validatorPoints, eraPoints.total, commission,
                    overview.total)>>

(* the averages calculateValidatorAPY stores                               *)
ApyAverages(apyByEra) ==
    LET apyValues == Values(apyByEra)
        IsPositive(apy) == RatLess(Zero, apy)
    IN [averageAPY |-> MeanOr(apyValues, Zero),
        activeOnlyAverageAPY |-> MeanOr(Filter(apyValues, IsPositive), Zero)]

(* Variant of ApyDone: the results go to the record of the validator that *)
(* is selected when the computation completes.                             *)
ApyDoneForSelected(c, loc) ==
    LET a == c.state.selectedHistoricalValidator
        averages == ApyAverages(loc.apyByEra)
        WithApy(v) == [v EXCEPT !.rewards.apyByEra = loc.apyByEra,
                                !.rewards.averageAPY = averages.averageAPY,
                                !.rewards.activeOnlyAverageAPY =
                                    averages.activeOnlyAverageAPY]
        updatedValidators ==
            [k \in DOMAIN loc.displayedValidators |->
                IF loc.displayedValidators[k].address = a
                THEN WithApy(loc.displayedValidators[k])
                ELSE loc.displayedValidators[k]]
        c1 == Set(c, [displayedValidators |-> updatedValidators,
                      validatorCache |-> Put(c.state.validatorCache, a,
                                             WithApy(loc.validator)),
                      loadingAPY |-> FALSE])
        c2 == calculateAverages(c1, a)
        c3 == [c2 EXCEPT !.ev = @ \cup {Event("apyEraFailed", era) : era \in loc.failed}]
    IN Emit(Emit(c3, Event("calculateValidatorAPY", a)),
            Event("requestedEras", loc.historicalEras))

(* after the loop: the averages, the update of the displayed list read at  *)
(* the start and of the record read at the start, then calculateAverages;  *)
(* the events of the return name the eras the computation covered          *)
ApyDone(c, loc) ==
    LET a == loc.validatorAddress
        averages == ApyAverages(loc.apyByEra)
        WithApy(v) == [v EXCEPT !.rewards.apyByEra = loc.apyByEra,
                                !.rewards.averageAPY = averages.averageAPY,
                                !.rewards.activeOnlyAverageAPY =
                                    averages.activeOnlyAverageAPY]
        updatedValidators ==
            [k \in DOMAIN loc.displayedValidators |->
                IF loc.displayedValidators[k].address = a
                THEN WithApy(loc.displayedValidators[k])
                ELSE loc.displayedValidators[k]]
        c1 == Set(c, [displayedValidators |-> updatedValidators,
                      validatorCache |-> Put(c.state.validatorCache, a,
                                             WithApy(loc.validator)),
                      loadingAPY |-> FALSE])
        c2 == calculateAverages(c1, a)
        c3 == [c2 EXCEPT !.ev = @ \cup {Event("apyEraFailed", era) : era \in loc.failed}]
    IN Emit(Emit(c3, Event("calculateValidatorAPY", a)),
            Event("requestedEras", loc.historicalEras))

(* the for loop from the batch at loc.i on: every era is awaited           *)
ApyBatches(c, loc) ==
    IF loc.i >= Len(loc.historicalEras) THEN ApyDone(c, loc)
    ELSE Suspend(c, "calculateValidatorAPY", "none",
                 [loc EXCEPT !.pending = Range(ApyBatch(loc))])

calculateValidatorAPY(c, a) ==
    LET st == c.state
        found == HasAddress(st.displayedValidators, a) \/ IsCached(st.validatorCache, a)
        validator == IF HasAddress(st.displayedValidators, a)
                     THEN FindAddress(st.displayedValidators, a)
                     ELSE st.validatorCache[a]
    IN IF ~found THEN Emit(c, Event("calculateValidatorAPY", a))
       ELSE ApyBatches(Set(c, [loadingAPY |-> TRUE]),
                [validatorAddress |-> a,
                 historicalEras |-> st.historicalEras,
                 displayedValidators |-> st.displayedValidators,
                 validator |-> validator,
                 i |-> 0,
                 pending |-> {},
                 failed |-> {},
                 apyByEra |-> EmptyMap])

(* a batch of eras has settled, the eras in failures by a failed query;    *)
(* errorEra is the era whose failure was recorded last                     *)
ApyBatchSettles(c, loc, failures, errorEra) ==
    LET batch == ApyBatch(loc)
        computed == {era \in loc.pending :
                        EraApy(loc.validator, loc.validatorAddress, era,
                               era \in failures) # << >>}
        apyByEra == Spread(loc.apyByEra,
                        [era \in computed |->
                            EraApy(loc.validator, loc.validatorAddress, era, FALSE)[1]])
        c1 == IF failures = {} THEN c
              ELSE Set(c, [error |-> <<"APY calc error for era", errorEra>>])
    IN ApyBatches(c1, [loc EXCEPT !.apyByEra = apyByEra,
                                  !.i = @ + ApyBatchSize,
                                  !.pending = {},
                                  !.failed = @ \cup failures])

----------------------------------------------------------------------------
(* fetchHistoricalPerformance(validatorAddress, forceRefresh)              *)

(* Array.from({ length: historyLength }, (_, i) => activeEra - i - 1)      *)
(*     .filter(era => era >= 0)                                            *)
HistoricalEras(activeEra, length) ==
    LET NonNegative(era) == era >= 0
    IN Filter([k \in 1..length |-> activeEra - (k - 1) - 1], NonNegative)

HistoryBatch(loc) == Slice(loc.historicalEras, loc.i, loc.i + HistoryBatchSize)

(* what one era contributes to the three maps, by the outcome of its       *)
(* queries: "failed" (the points or reward query threw: nothing),          *)
(* "prefsFailed" (only the commission query threw), "ok"                   *)
EraPerformance(a, era, outcome) ==
    LET eraPoints == ErasRewardPoints(era)
        eraReward == ErasValidatorReward(era)
        listed == outcome # "failed" /\ eraPoints.present
                  /\ a \in DOMAIN eraPoints.individual
        prefs == ErasValidatorPrefs(era, a)
    IN [points |-> IF listed THEN <<eraPoints.individual[a]>> ELSE << >>,
        reward |-> IF listed /\ eraReward # 0 /\ eraPoints.total > 0
                   THEN <<FixedPointReward(eraPoints.individual[a], eraPoints.total,
                                           eraReward)>>
                   ELSE << >>,
        commission |-> IF outcome = "ok" /\ prefs.present /\ Truthy(prefs.commission)
                       THEN <<prefs.commission>> ELSE << >>]

(* the record fetchHistoricalPerformance stores: the record read at the    *)
(* start with the three maps of this fetch and their averages              *)
WithHistory(validator, eras, performance, rewards, commissions) ==
    LET HasPoints(era) == era \in DOMAIN performance
        HasCommission(era) == era \in DOMAIN commissions
        withPoints == Filter(eras, HasPoints)
        withCommission == Filter(eras, HasCommission)
    IN [validator EXCEPT
           !.performance.previousErasPoints = performance,
           !.performance.averagePoints =
               MeanOr([k \in DOMAIN withPoints |-> Rat(performance[withPoints[k]], 1)],
                      Zero),
           !.rewards.previousErasRewards = rewards,
           !.historicalCommission = commissions,
           !.averageCommission =
               MeanOr([k \in DOMAIN withCommission |-> commissions[withCommission[k]]],
                      validator.commission)]

(* what follows the fetch in setSelectedHistoricalValidator and            *)
(* setHistoryLength ("apy"): calculateValidatorAPY                         *)
HistoryReturns(c, cont, a) ==
    LET c1 == Emit(c, Event("fetchHistoricalPerformance", a))
    IN IF cont = "apy" THEN calculateValidatorAPY(c1, a) ELSE c1

HistoryDone(c, cont, loc) ==
    LET a == loc.validatorAddress
        updatedValidator == WithHistory(loc.validator, loc.historicalEras,
                                loc.validatorPerformance, loc.validatorRewards,
                                loc.validatorCommissions)
        c1 == Set(SetCached(c, a, updatedValidator),
                  [displayedValidators |->
                       ReplaceAddress(loc.displayedValidators, a, updatedValidator),
                   loadingHistoricalData |-> FALSE])
    IN HistoryReturns(
           [c1 EXCEPT !.ev = @ \cup {Event("historyEraFailed", era) : era \in loc.failed}],
           cont, a)

(* the for loop from the batch at loc.i on: every era is awaited           *)
HistoryBatches(c, cont, loc) ==
    IF loc.i >= Len(loc.historicalEras) THEN HistoryDone(c, cont, loc)
    ELSE Suspend(c, "fetchHistoricalPerformance", cont,
                 [loc EXCEPT !.pending = Range(HistoryBatch(loc))])

(* Variant of fetchHistoricalPerformance: the early returns leave          *)
(* loadingHistoricalData as the start of the call set it.                  *)
fetchHistoricalPerformanceReturnsLoading(c, a, forceRefresh, cont) ==
    LET st == c.state
        eras == HistoricalEras(st.activeEra, st.historyLength)
        c1 == Set(c, [loadingHistoricalData |-> TRUE, historicalEras |-> eras])
        found == IsCached(st.validatorCache, a) \/ HasAddress(st.displayedValidators, a)
        validator == IF IsCached(st.validatorCache, a)
                     THEN st.validatorCache[a]
                     ELSE FindAddress(st.displayedValidators, a)
        covered == ~forceRefresh
                   /\ Cardinality(DOMAIN validator.performance.previousErasPoints)
                          >= Len(eras)
    IN IF ~found \/ covered
       THEN HistoryReturns(c1, cont, a)
       ELSE HistoryBatches(c1, cont,
                [validatorAddress |-> a,
                 historicalEras |-> eras,
                 validator |-> validator,
                 displayedValidators |-> st.displayedValidators,
                 i |-> 0,
                 pending |-> {},
                 failed |-> {},
                 validatorPerformance |-> EmptyMap,
                 validatorRewards |-> EmptyMap,
                 validatorCommissions |-> EmptyMap])

fetchHistoricalPerformance(c, a, forceRefresh, cont) ==
    LET st == c.state
        eras == HistoricalEras(st.activeEra, st.historyLength)
        c1 == Set(c, [loadingHistoricalData |-> TRUE, historicalEras |-> eras])
        found == IsCached(st.validatorCache, a) \/ HasAddress(st.displayedValidators, a)
        validator == IF IsCached(st.validatorCache, a)
                     THEN st.validatorCache[a]
                     ELSE FindAddress(st.displayedValidators, a)
        covered == ~forceRefresh
                   /\ Cardinality(DOMAIN validator.performance.previousErasPoints)
                          >= Len(eras)
    IN IF ~found \/ covered
       THEN HistoryReturns(Set(c1, [loadingHistoricalData |-> FALSE]), cont, a)
       ELSE HistoryBatches(c1, cont,
                [validatorAddress |-> a,
                 historicalEras |-> eras,
                 validator |-> validator,
                 displayedValidators |-> st.displayedValidators,
                 i |-> 0,
                 pending |-> {},
                 failed |-> {},
                 validatorPerformance |-> EmptyMap,
                 validatorRewards |-> EmptyMap,
                 validatorCommissions |-> EmptyMap])

(* a batch of eras has settled, each by its outcome; errorEra is the era   *)
(* whose failure was recorded last                                         *)
HistoryBatchSettles(c, cont, loc, outcomes, errorEra) ==
    LET a == loc.validatorAddress
        got(era) == EraPerformance(a, era, outcomes[era])
        Collect(map, field) ==
            Spread(map, [era \in {e \in loc.pending : got(e)[field] # << >>} |->
                            got(era)[field][1]])
        c1 == IF \E era \in loc.pending : outcomes[era] = "failed"
              THEN Set(c, [error |-> <<"something went wrong fetching the era data for",
                                       errorEra>>])
              ELSE c
    IN HistoryBatches(c1, cont,
           [loc EXCEPT !.validatorPerformance = Collect(@, "points"),
                       !.validatorRewards = Collect(@, "reward"),
                       !.validatorCommissions = Collect(@, "commission"),
                       !.i = @ + HistoryBatchSize,
                       !.pending = {},
                       !.failed = @ \cup {era \in loc.pending : outcomes[era] # "ok"}])

----------------------------------------------------------------------------
(* The synchronous actions of the store.                                   *)

(* Variant of setPageSize: the call clears error.                          *)
setPageSizeClearsError(c, size) ==
    Emit(fetchValidatorPage(Set(c, [pageSize |-> size, error |-> NoError]), 1, "none"),
         Event("setPageSize", size))

setPageSize(c, size) ==
    Emit(fetchValidatorPage(Set(c, [pageSize |-> size]), 1, "none"),
         Event("setPageSize", size))

setFilterOptions(c, options) ==
    applyFilters(Set(c, options), "filter")

(* Variant of setHistoryLength: the fetch is not forced, so that a record  *)
(* that covers the requested eras is not fetched again.                    *)
setHistoryLengthUnforced(c, length) ==
    LET newLength == Max(1, Min(length, c.state.maxHistoryLength))
        c1 == Set(c, [historyLength |-> newLength])
        selected == c1.state.selectedHistoricalValidator
    IN IF selected # Null
       THEN fetchHistoricalPerformance(c1, selected, FALSE, "apy")
       ELSE c1

setHistoryLength(c, length) ==
    LET newLength == Max(1, Min(length, c.state.maxHistoryLength))
        c1 == Set(c, [historyLength |-> newLength])
        selected == c1.state.selectedHistoricalValidator
    IN IF selected # Null
       THEN fetchHistoricalPerformance(c1, selected, TRUE, "apy")
       ELSE c1

(* Variant of setSelectedHistoricalValidator: the fetch is forced, so that *)
(* a record that covers the requested eras is fetched again.               *)
setSelectedHistoricalValidatorForced(c, address) ==
    LET c1 == Set(c, [selectedHistoricalValidator |-> address])
    IN IF address # Null
       THEN fetchHistoricalPerformance(c1, address, TRUE, "apy")
       ELSE c1

setSelectedHistoricalValidator(c, address) ==
    LET c1 == Set(c, [selectedHistoricalValidator |-> address])
    IN IF address # Null
       THEN fetchHistoricalPerformance(c1, address, FALSE, "apy")
       ELSE c1

----------------------------------------------------------------------------
(* The batch loop of the six batched jobs,                                 *)
(*   for (let i = 0; i < items.length; i += batchSize) {                   *)
(*       const batch = items.slice(i, i + batchSize);                      *)
(*       await Promise.all(batch.map(async item => { ... }));              *)
(*   }                                                                     *)
(* with the items counted: loc.n items, loc.started of them taken so far,  *)
(* loc.stage[k] of them awaiting the k-th remote call of their callback.   *)

BatchedJobs ==
    {"applyFilters", "calculateLastEraAPYForAllValidators", "prefetchValidators",
     "fetchValidatorPage", "fetchHistoricalPerformance", "calculateValidatorAPY"}

BatchSizeOf(op) ==
    CASE op = "applyFilters" -> FilterBatchSize
      [] op = "calculateLastEraAPYForAllValidators" -> BulkBatchSize
      [] op = "prefetchValidators" -> PrefetchBatchSize
      [] op = "fetchValidatorPage" -> PageBatchSize
      [] op = "fetchHistoricalPerformance" -> HistoryBatchSize
      [] op = "calculateValidatorAPY" -> ApyBatchSize

(* the remote calls the callback of one item awaits, one after the other   *)
CallsPerItem(op) ==
    CASE op = "applyFilters" -> 1
      [] op \in {"calculateLastEraAPYForAllValidators", "prefetchValidators",
                 "fetchValidatorPage"} -> 2
      [] OTHER -> 3

(* the jobs whose callback returns without a remote call for a cached item *)
ReadsCache(op) ==
    op \in {"applyFilters", "calculateLastEraAPYForAllValidators", "fetchValidatorPage"}

Outstanding(loc) == IntSum(loc.stage)

(* Variant of GroupSettled: the loop goes on as soon as one callback of    *)
(* the group has settled.                                                  *)
GroupSettledWhenAnySettled(loc) == Outstanding(loc) < loc.started

(* await Promise.all(...): the loop goes on when every callback of the     *)
(* group has settled                                                       *)
GroupSettled(loc) == Outstanding(loc) = 0

(* batch = items.slice(i, i + batchSize): the size of the group at i       *)
GroupSize(op, n, i) == Min(BatchSizeOf(op), n - i)

(* the loop runs on from loc.started: it takes the groups up to the first  *)
(* one with an item that awaits a remote call (the callbacks of cached     *)
(* items return at once), or all the groups left                           *)
LoopRuns(op, loc) ==
    LET groups == {i \in loc.started..(loc.n - 1) : i % BatchSizeOf(op) = 0}
        Awaiting(i) == IF ReadsCache(op) THEN 1..GroupSize(op, loc.n, i)
                       ELSE {GroupSize(op, loc.n, i)}
        Stops(i) == {[loc EXCEPT !.started = i + GroupSize(op, loc.n, i),
                                 !.stage[1] = @ + awaiting] : awaiting \in Awaiting(i)}
    IN IF ReadsCache(op)
       THEN UNION {Stops(i) : i \in groups} \cup {[loc EXCEPT !.started = loc.n]}
       ELSE Stops(loc.started)

(* the in-flight invocations: the job, until its loop has ended            *)
BatchJob(op, loc) ==
    IF Outstanding(loc) = 0 /\ loc.started >= loc.n
    THEN EmptyMap
    ELSE Put(EmptyMap, [op |-> op, cont |-> "none", loc |-> loc], 1)

(* the job starts: its loop runs from index 0                              *)
BatchStarts(op, n) ==
    LET loc == [n |-> n, started |-> 0, stage |-> [k \in 1..CallsPerItem(op) |-> 0]]
    IN IF n = 0 THEN {loc} ELSE LoopRuns(op, loc)

(* a remote call of an item settles: its callback awaits its next call     *)
(* (more) or returns; when the group has settled the loop runs on          *)
CallSettles(op, loc, k, more) ==
    LET loc1 == IF more
                THEN [loc EXCEPT !.stage[k] = @ - 1, !.stage[k + 1] = @ + 1]
                ELSE [loc EXCEPT !.stage[k] = @ - 1]
    IN IF GroupSettled(loc1) /\ loc1.started < loc1.n
       THEN LoopRuns(op, loc1)
       ELSE {loc1}

----------------------------------------------------------------------------
(* Inputs.                                                                 *)

PageSizeInputs == {1, InitialPageSize}
(* a checkbox of the table sends the negation of the option it shows       *)
FilterToggles ==
    {[includeFullCommission |-> ~includeFullCommission],
     [includeBlockedNominations |-> ~includeBlockedNominations]}
(* the page-size select offers the sizes, and reports a change             *)
PageSizeChanges == PageSizeInputs \ {pageSize}
HistoryLengthInputs == {0, 1, 2, InitialHistoryLength}
ItemOutcomes == {"ok", "stakeFailed", "failed"}
EraOutcomes == {"ok", "prefsFailed", "failed"}
QueryOutcomes == {"ok", "absent", "failed"}

(* the page numbers the pagination controls offer                          *)
TotalPages == (totalValidators + pageSize - 1) \div pageSize
PageInputs == 1..Max(1, TotalPages)

----------------------------------------------------------------------------
(* Actions.                                                                *)

Init ==
    /\ state = InitialState
    /\ jobs = EmptyMap
    /\ timers = [apy500 |-> 0, apy1000 |-> 0, prefetch2000 |-> 0]
    /\ calls = 0
    /\ faults = 0
    /\ ev = {}

Commit(c) ==
    /\ state' = c.state
    /\ jobs' = c.jobs
    /\ timers' = c.timers
    /\ ev' = c.ev

Quiescent == DOMAIN jobs = {}

(* The hook useValidatorData calls fetchAllValidators when the component   *)
(* mounts: it is the first call of a session.                              *)
Mount ==
    /\ calls = 0
    /\ calls' = 1
    /\ Commit(fetchAllValidators(ConfigAt(Caller)))
    /\ UNCHANGED faults

(* the controls of the table are disabled while the hook reports loading  *)
ControlsEnabled ==
    ~(state.loading \/ state.loadingPage \/ state.calculatingLastEraAPY)

(* the controls of the historical view are disabled while it loads         *)
HistoryControlsEnabled == ~state.loadingHistoricalData

(* a later call from the user interface, made when the user may act: at    *)
(* most limit calls in a session                                           *)
UserCalls(limit, enabled) ==
    /\ calls >= 1
    /\ calls < limit
    /\ enabled
    /\ calls' = calls + 1
    /\ UNCHANGED faults

CallFetchValidatorPage(limit, enabled) ==
    /\ UserCalls(limit, enabled)
    /\ \E page \in PageInputs : Commit(fetchValidatorPage(ConfigAt(Caller), page, "none"))

CallSetPageSize(limit, enabled) ==
    /\ UserCalls(limit, enabled)
    /\ \E size \in PageSizeChanges : Commit(setPageSize(ConfigAt(Caller), size))

CallSetFilterOptions(limit, enabled) ==
    /\ UserCalls(limit, enabled)
    /\ \E options \in FilterToggles : Commit(setFilterOptions(ConfigAt(Caller), options))

CallSetSelectedHistoricalValidator(limit, enabled) ==
    /\ UserCalls(limit, enabled)
    /\ \E address \in ValidatorIds \cup {Null} :
           Commit(setSelectedHistoricalValidator(ConfigAt(Caller), address))

CallSetHistoryLength(limit, enabled) ==
    /\ UserCalls(limit, enabled)
    /\ \E length \in HistoryLengthInputs : Commit(setHistoryLength(ConfigAt(Caller), length))

(* a timer set by fetchAllValidators or applyFilters fires; the prefetch   *)
(* timer of a bootstrap (2000 ms) fires after its APY timer (1000 ms)      *)
ApyTimerFires(enabled) ==
    /\ enabled
    /\ \E kind \in {"apy500", "apy1000"} :
          /\ timers[kind] > 0
          /\ Commit(calculateLastEraAPYForAllValidators(
                 [ConfigAt(Caller) EXCEPT !.timers[kind] = @ - 1]))
    /\ UNCHANGED <<calls, faults>>

PrefetchTimerFires(enabled) ==
    /\ enabled
    /\ timers.prefetch2000 > timers.apy1000
    /\ Commit(prefetchValidators([ConfigAt(Caller) EXCEPT !.timers.prefetch2000 = @ - 1]))
    /\ UNCHANGED <<calls, faults>>

Running(op) == {j \in DOMAIN jobs : j.op = op}

(* n remote calls of the step do not answer (fail or answer nothing): at   *)
(* most limit do in a session                                              *)
Faults(n, limit) ==
    /\ faults + n <= limit
    /\ faults' = faults + n
    /\ UNCHANGED calls

FaultsIn(outcomes) == Cardinality({x \in DOMAIN outcomes : outcomes[x] # "ok"})

(* the bootstrap of a session that starts when the chain is at activeEra   *)
BootstrapStepAt(limit, activeEra) ==
    \E j \in Running("fetchAllValidators"), outcome \in QueryOutcomes :
        /\ Faults(IF outcome = "ok" THEN 0 ELSE 1, limit)
        /\ Commit(BootstrapSettlesAt(ConfigAt(j), j.loc, outcome, activeEra))

BootstrapStep(limit) == BootstrapStepAt(limit, ChainActiveEra)

(* a session that starts when the chain is at a later era                  *)
LateActiveEra == 2 * ChainActiveEra
LateBootstrapStep(limit) == BootstrapStepAt(limit, LateActiveEra)

FilterStep(limit) ==
    \E j \in Running("applyFilters") :
        \E failures \in SUBSET j.loc.pending :
            /\ Faults(Cardinality(failures), limit)
            /\ Commit(FilterBatchSettles(ConfigAt(j), j.cont, j.loc, failures))

PageStep(limit) ==
    \E j \in Running("fetchValidatorPage") :
        \E a \in j.loc.pending, outcome \in ItemOutcomes :
            /\ Faults(IF outcome = "ok" THEN 0 ELSE 1, limit)
            /\ Commit(PageItemSettles(ConfigAt(j), j.cont, j.loc, a, outcome))

BulkHeaderStep(limit) ==
    \E j \in Running("calculateLastEraAPYForAllValidators"), outcome \in QueryOutcomes :
        /\ j.loc.pc = "header"
        /\ Faults(IF outcome = "ok" THEN 0 ELSE 1, limit)
        /\ Commit(BulkHeaderSettles(ConfigAt(j), j.loc, outcome))

BulkStep(limit) ==
    \E j \in Running("calculateLastEraAPYForAllValidators") :
        /\ j.loc.pc = "batch"
        /\ \E failures \in SUBSET j.loc.pending :
               /\ Faults(Cardinality(failures), limit)
               /\ Commit(BulkBatchSettles(ConfigAt(j), j.loc, failures))

PrefetchStep(limit) ==
    \E j \in Running("prefetchValidators") :
        \E outcomes \in [j.loc.pending -> ItemOutcomes] :
            /\ Faults(FaultsIn(outcomes), limit)
            /\ Commit(PrefetchBatchSettles(ConfigAt(j), j.loc, outcomes))

HistoryStep(limit) ==
    \E j \in Running("fetchHistoricalPerformance") :
        \E outcomes \in [j.loc.pending -> EraOutcomes] :
            \E errorEra \in {era \in j.loc.pending :
                                outcomes[era] = "failed"
                                \/ \A e \in j.loc.pending : outcomes[e] # "failed"} :
                /\ Faults(FaultsIn(outcomes), limit)
                /\ Commit(HistoryBatchSettles(ConfigAt(j), j.cont, j.loc,
                                              outcomes, errorEra))

ApyStep(limit) ==
    \E j \in Running("calculateValidatorAPY") :
        \E failures \in SUBSET j.loc.pending :
            \E errorEra \in (IF failures = {} THEN j.loc.pending ELSE failures) :
                /\ Faults(Cardinality(failures), limit)
                /\ Commit(ApyBatchSettles(ConfigAt(j), j.loc, failures, errorEra))

(* The table: after the mount the user pages, resizes and filters whenever *)
(* the controls are enabled; timers fire at any time.                      *)
Next ==
    \/ Mount
    \/ CallFetchValidatorPage(MaxCalls, ControlsEnabled)
    \/ CallSetPageSize(MaxCalls, ControlsEnabled)
    \/ CallSetFilterOptions(MaxCalls, ControlsEnabled)
    \/ ApyTimerFires(TRUE)
    \/ PrefetchTimerFires(TRUE)
    \/ BootstrapStep(MaxFaults)
    \/ FilterStep(MaxFaults)
    \/ PageStep(MaxFaults)
    \/ BulkHeaderStep(MaxFaults)
    \/ BulkStep(MaxFaults)
    \/ PrefetchStep(MaxFaults)

Spec == Init /\ [][Next]_vars

(* The table in a session that starts one era later: in its last era both  *)
(* validators earn, so that the ranking by APY has no ties at 0; no remote  *)
(* call fails.                                                             *)
NextEra ==
    \/ Mount
    \/ CallFetchValidatorPage(MaxEraCalls, ControlsEnabled)
    \/ CallSetPageSize(MaxEraCalls, ControlsEnabled)
    \/ CallSetFilterOptions(MaxEraCalls, ControlsEnabled)
    \/ ApyTimerFires(TRUE)
    \/ PrefetchTimerFires(TRUE)
    \/ BootstrapStepAt(MaxEraFaults, ChainActiveEra + 1)
    \/ FilterStep(MaxEraFaults)
    \/ PageStep(MaxEraFaults)
    \/ BulkHeaderStep(MaxEraFaults)
    \/ BulkStep(MaxEraFaults)
    \/ PrefetchStep(MaxEraFaults)

SpecEra == Init /\ [][NextEra]_vars

(* The table, one operation at a time: the user and the timers wait until  *)
(* no operation is in flight.                                              *)
NextSeq ==
    \/ Mount
    \/ CallFetchValidatorPage(MaxSeqCalls, Quiescent)
    \/ CallSetPageSize(MaxSeqCalls, Quiescent)
    \/ CallSetFilterOptions(MaxSeqCalls, Quiescent)
    \/ ApyTimerFires(Quiescent)
    \/ PrefetchTimerFires(Quiescent)
    \/ BootstrapStep(MaxSeqFaults)
    \/ FilterStep(MaxSeqFaults)
    \/ PageStep(MaxSeqFaults)
    \/ BulkHeaderStep(MaxSeqFaults)
    \/ BulkStep(MaxSeqFaults)
    \/ PrefetchStep(MaxSeqFaults)

SpecSeq == Init /\ [][NextSeq]_vars

(* The historical view: after the mount the user selects validators and    *)
(* changes the history length whenever the controls are enabled, while the *)
(* timers of the bootstrap fire at any time.  The page size and the        *)
(* filters stay as they are at the mount, so the first page has cached     *)
(* every filtered validator before the prefetch timer is armed and         *)
(* prefetchValidators returns at its toPrefetch.length === 0 test: it has  *)
(* no batch to await here.                                                 *)
NextHist ==
    \/ Mount
    \/ CallSetSelectedHistoricalValidator(MaxHistCalls, HistoryControlsEnabled)
    \/ CallSetHistoryLength(MaxHistCalls, HistoryControlsEnabled)
    \/ ApyTimerFires(TRUE)
    \/ PrefetchTimerFires(TRUE)
    \/ BootstrapStep(MaxHistFaults)
    \/ FilterStep(MaxHistFaults)
    \/ PageStep(MaxHistFaults)
    \/ BulkHeaderStep(MaxHistFaults)
    \/ BulkStep(MaxHistFaults)
    \/ HistoryStep(MaxHistFaults)
    \/ ApyStep(MaxHistFaults)

SpecHist == Init /\ [][NextHist]_vars

(* A later session with failing remote calls, one operation at a time:     *)
(* the history reaches back over more eras than one group of the era jobs  *)
(* holds.                                                                  *)
NextFaulty ==
    \/ Mount
    \/ CallSetPageSize(MaxFaultyCalls, Quiescent)
    \/ CallSetFilterOptions(MaxFaultyCalls, Quiescent)
    \/ CallSetSelectedHistoricalValidator(MaxFaultyCalls, Quiescent)
    \/ ApyTimerFires(Quiescent)
    \/ PrefetchTimerFires(Quiescent)
    \/ LateBootstrapStep(MaxFaultyFaults)
    \/ FilterStep(MaxFaultyFaults)
    \/ PageStep(MaxFaultyFaults)
    \/ BulkHeaderStep(MaxFaultyFaults)
    \/ BulkStep(MaxFaultyFaults)
    \/ PrefetchStep(MaxFaultyFaults)
    \/ HistoryStep(MaxFaultyFaults)
    \/ ApyStep(MaxFaultyFaults)

SpecFaulty == Init /\ [][NextFaulty]_vars

(* The historical view beside the table, under the scheduling of the event *)
(* loop: the hook mounts, a timer that is due fires, and a remote call in  *)
(* flight settles (it resolves or rejects), so that the job that awaits it *)
(* is resumed.  The user is free to make no further call.  The weak        *)
(* fairness of the steps of the batched jobs is written out as             *)
(* []<>(not enabled) \/ []<><<step>>_vars: such a step is enabled exactly  *)
(* when an invocation of a batched job is in flight, since a remote call   *)
(* may always resolve.                                                     *)
SpecLive ==
    /\ Init
    /\ [][\/ Mount
          \/ CallSetSelectedHistoricalValidator(MaxCalls, HistoryControlsEnabled)
          \/ ApyTimerFires(TRUE)
          \/ PrefetchTimerFires(TRUE)
          \/ BootstrapStep(MaxFaults)
          \/ FilterStep(MaxFaults)
          \/ PageStep(MaxFaults)
          \/ BulkHeaderStep(MaxFaults)
          \/ BulkStep(MaxFaults)
          \/ HistoryStep(MaxFaults)
          \/ ApyStep(MaxFaults)]_vars
    /\ WF_vars(\/ Mount
               \/ ApyTimerFires(TRUE)
               \/ PrefetchTimerFires(TRUE)
               \/ BootstrapStep(MaxFaults))
    /\ \/ []<>(\A j \in DOMAIN jobs : j.op = "fetchAllValidators")
       \/ []<><<\/ FilterStep(MaxFaults)
                \/ PageStep(MaxFaults)
                \/ BulkHeaderStep(MaxFaults)
                \/ BulkStep(MaxFaults)
                \/ HistoryStep(MaxFaults)
                \/ ApyStep(MaxFaults)>>_vars

(* The table beside the historical view: the user resizes, filters and     *)
(* selects a validator when no operation is in flight, and turns the pages *)
(* whenever the controls of the table are enabled, also while the          *)
(* historical fetch and the APY computation of the selection run.  The     *)
(* session starts one era later, so that both validators earn in its last  *)
(* era, and no remote call fails.                                          *)
SpecPages ==
    /\ Init
    /\ [][\/ Mount
          \/ CallSetFilterOptions(MaxSeqCalls, Quiescent)
          \/ CallSetPageSize(MaxSeqCalls, Quiescent)
          \/ CallSetSelectedHistoricalValidator(MaxSeqCalls, Quiescent)
          \/ CallFetchValidatorPage(MaxSeqCalls, ControlsEnabled)
          \/ ApyTimerFires(Quiescent)
          \/ PrefetchTimerFires(Quiescent)
          \/ BootstrapStepAt(0, ChainActiveEra + 1)
          \/ FilterStep(0)
          \/ PageStep(0)
          \/ BulkHeaderStep(0)
          \/ BulkStep(0)
          \/ PrefetchStep(0)
          \/ HistoryStep(0)
          \/ ApyStep(0)]_vars

(* Selections that supersede one another: the user first widens the       *)
(* filter, so that the cache holds a record of each validator, and then    *)
(* selects validators while the computations of earlier selections run;    *)
(* the table is at rest while the user selects, and no remote call fails.  *)
NextSel ==
    \/ Mount
    \/ CallSetFilterOptions(MaxSelToggles, Quiescent)
    \/ CallSetSelectedHistoricalValidator(MaxSelCalls,
           /\ HistoryControlsEnabled
           /\ \A j \in DOMAIN jobs :
                  j.op \in {"fetchHistoricalPerformance", "calculateValidatorAPY"})
    \/ ApyTimerFires(Quiescent)
    \/ PrefetchTimerFires(Quiescent)
    \/ BootstrapStep(0)
    \/ FilterStep(0)
    \/ PageStep(0)
    \/ BulkHeaderStep(0)
    \/ BulkStep(0)
    \/ HistoryStep(0)
    \/ ApyStep(0)

SpecSel == Init /\ [][NextSel]_vars

(* One batched job, its items counted.                                     *)
InitBatch ==
    /\ state = InitialState
    /\ timers = [apy500 |-> 0, apy1000 |-> 0, prefetch2000 |-> 0]
    /\ calls = 0
    /\ faults = 0
    /\ ev = {}
    /\ \E op \in BatchedJobs :
           \E n \in 0..(MaxGroups * BatchSizeOf(op) + 1) :
               \E loc \in BatchStarts(op, n) : jobs = BatchJob(op, loc)

BatchStep ==
    /\ \E j \in DOMAIN jobs :
           \E k \in 1..CallsPerItem(j.op), more \in BOOLEAN :
               /\ j.loc.stage[k] > 0
               /\ more => k < CallsPerItem(j.op)
               /\ \E loc \in CallSettles(j.op, j.loc, k, more) :
                      jobs' = BatchJob(j.op, loc)
    /\ UNCHANGED <<state, timers, calls, faults, ev>>

NextBatch == BatchStep

SpecBatch == InitBatch /\ [][NextBatch]_vars

(* The APY formula on its own: the inputs are drawn at the start and the   *)
(* formula is applied to them once.                                        *)
InitApy ==
    /\ state = InitialState
    /\ jobs = EmptyMap
    /\ timers = [apy500 |-> 0, apy1000 |-> 0, prefetch2000 |-> 0]
    /\ calls = 0
    /\ faults = 0
    /\ \E in \in [eraReward : {0, 7, 90, 1000, 10000},
                   validatorPoints : 1..MaxApyPoints \cup {100},
                   totalEraPoints : 1..MaxApyPoints \cup {400},
                   commission : {Zero, Rat(1, 10), Rat(1, 2), One},
                   totalStake : {1000, 5000}] :
           /\ in.validatorPoints <= in.totalEraPoints
           /\ ev = {Event("apyInputs", in)}

ApplyApy ==
    /\ \E e \in ev :
           /\ e.op = "apyInputs"
           /\ ev' = {Event("apy", [inputs |-> e.arg,
                                   parts |-> ApyParts(e.arg.eraReward, e.arg.validatorPoints,
                                                      e.arg.totalEraPoints, e.arg.commission,
                                                      e.arg.totalStake)])}
    /\ UNCHANGED <<state, jobs, timers, calls, faults>>

SpecApy == InitApy /\ [][ApplyApy]_vars

----------------------------------------------------------------------------
(* Properties.                                                             *)

(* C1: in every reachable state the length of filteredValidators equals    *)
(* totalValidators.                                                        *)
C1_FilteredLengthIsTotal == Len(filteredValidators) = totalValidators

(* a filter change has widened the list and the bulk job has re-sorted it  *)
C1_Witness ==
    /\ state.lastEraAPYCalculated
    /\ includeFullCommission
    /\ Len(filteredValidators) >= 2
    /\ Len(filteredValidators) < Len(allValidators) + 1
    /\ Quiescent

(* C2: in every reachable state the addresses of displayedValidators are   *)
(* the addresses of the slice of filteredValidators for currentPage, that  *)
(* is filteredValidators[(currentPage-1)*pageSize : currentPage*pageSize]. *)
C2_DisplayedIsPageSlice ==
    Addresses(displayedValidators)
        = Addresses(Slice(filteredValidators, (currentPage - 1) * pageSize,
                          currentPage * pageSize))

(* C3: when fetchValidatorPage(n) has run to completion with no other      *)
(* operation interleaved, displayedValidators holds one record for each    *)
(* entry of the page-n slice of filteredValidators, in the same order and  *)
(* with the same address, whichever remote calls failed; an entry whose    *)
(* preference fetch failed has the default record (commission 0,           *)
(* totalStake 0, ownStake 0), and every record is in validatorCache under  *)
(* its address.                                                            *)
C3_PageAloneHoldsItsSlice ==
    \A e \in ev :
        e.op = "fetchValidatorPage" =>
            /\ Addresses(displayedValidators)
                   = Addresses(Slice(filteredValidators, (e.arg - 1) * pageSize,
                                     e.arg * pageSize))
            /\ \A k \in DOMAIN displayedValidators :
                   LET record == displayedValidators[k] IN
                   /\ IsCached(validatorCache, record.address)
                   /\ validatorCache[record.address] = record
                   /\ Event("defaultRecord", record.address) \in ev =>
                          /\ record.commission = Zero
                          /\ record.totalStake = 0
                          /\ record.ownStake = 0

(* C4: after setPageSize(s) returns, and after the work started by         *)
(* setFilterOptions(o) has completed, currentPage is 1, whatever it was    *)
(* before and whatever filteredValidators has become.                      *)
C4_PageOneAfterResizeOrFilter ==
    \A e \in ev :
        e.op \in {"setPageSize", "setFilterOptions"} => currentPage = 1

(* C5: when applyFilters completes, filteredValidators holds exactly the   *)
(* validators of allValidators with (includeFullCommission or commission   *)
(* < 1.0) and (includeBlockedNominations or not blockedNominations), the   *)
(* two taken from the validator's cache record when it has one and from    *)
(* the preference query otherwise (a validator whose query failed is kept  *)
(* by default); so with includeFullCommission = false no entry of          *)
(* filteredValidators has a cache record with commission >= 1.0.           *)
C5_FilteredIsThePassingValidators ==
    Event("applyFilters", 0) \in ev =>
        \A k \in DOMAIN allValidators :
            LET a == allValidators[k].address
                prefs == StakingValidators(a)
                commission == IF IsCached(validatorCache, a)
                              THEN validatorCache[a].commission
                              ELSE CommissionOf(prefs)
                blockedNominations == IF IsCached(validatorCache, a)
                                      THEN validatorCache[a].blockedNominations
                                      ELSE BlockedOf(prefs)
            IN Event("defaultEntry", a) \notin ev =>
                   (HasAddress(filteredValidators, a)
                       <=> /\ includeFullCommission \/ RatLess(commission, One)
                           /\ includeBlockedNominations \/ ~blockedNominations)

(* C6: a write of fetchHistoricalPerformance or calculateValidatorAPY to a *)
(* cached record merges previousErasPoints, previousErasRewards,           *)
(* historicalCommission and apyByEra key by key: every era key the record  *)
(* had before the write is still there after it.                           *)
C6_HistoricalMapsMerge ==
    [][\A e \in ev' :
           (/\ e.op \in {"fetchHistoricalPerformance", "calculateValidatorAPY"}
            /\ IsCached(validatorCache, e.arg)
            /\ IsCached(validatorCache', e.arg)) =>
               LET before == validatorCache[e.arg]
                   after == validatorCache'[e.arg]
               IN /\ DOMAIN before.performance.previousErasPoints
                         \subseteq DOMAIN after.performance.previousErasPoints
                  /\ DOMAIN before.rewards.previousErasRewards
                         \subseteq DOMAIN after.rewards.previousErasRewards
                  /\ DOMAIN before.historicalCommission
                         \subseteq DOMAIN after.historicalCommission
                  /\ DOMAIN before.rewards.apyByEra
                         \subseteq DOMAIN after.rewards.apyByEra]_vars

(* C7: interleaved jobs do not lose each other's updates of a record: when *)
(* the bulk last-era APY job completes, every cached record still holds    *)
(* the historical maps and averages it held, the ones that                 *)
(* fetchHistoricalPerformance and calculateValidatorAPY wrote while the    *)
(* bulk job was in flight included.                                        *)
C7_BulkJobKeepsHistoricalUpdates ==
    [][Event("calculateLastEraAPYForAllValidators", 0) \in ev' =>
           \A a \in DOMAIN validatorCache :
               /\ IsCached(validatorCache', a)
               /\ validatorCache'[a].performance.previousErasPoints
                      = validatorCache[a].performance.previousErasPoints
               /\ validatorCache'[a].performance.averagePoints
                      = validatorCache[a].performance.averagePoints
               /\ validatorCache'[a].rewards.previousErasRewards
                      = validatorCache[a].rewards.previousErasRewards
               /\ validatorCache'[a].rewards.apyByEra
                      = validatorCache[a].rewards.apyByEra
               /\ validatorCache'[a].rewards.averageAPY
                      = validatorCache[a].rewards.averageAPY
               /\ validatorCache'[a].rewards.activeOnlyAverageAPY
                      = validatorCache[a].rewards.activeOnlyAverageAPY
               /\ validatorCache'[a].historicalCommission
                      = validatorCache[a].historicalCommission]_vars

(* C8: after the historical APY computation of a validator completes, its  *)
(* averageAPY is the mean of the per-era APY over all the requested eras,  *)
(* an era without APY (the validator was inactive) counting as 0, and its  *)
(* activeOnlyAverageAPY is the mean over the eras with nonzero APY.        *)
C8_AverageApyCountsInactiveEras ==
    \A e \in ev, r \in ev :
        (/\ e.op = "calculateValidatorAPY"
         /\ r.op = "requestedEras"
         /\ IsCached(validatorCache, e.arg)) =>
            LET rewards == validatorCache[e.arg].rewards
                eras == r.arg
                apyOf(era) == IF era \in DOMAIN rewards.apyByEra
                              THEN rewards.apyByEra[era] ELSE Zero
                perEra == [k \in DOMAIN eras |-> apyOf(eras[k])]
                IsNonzero(apy) == apy # Zero
            IN /\ rewards.averageAPY = MeanOr(perEra, Zero)
               /\ rewards.activeOnlyAverageAPY = MeanOr(Filter(perEra, IsNonzero), Zero)

(* C9: whenever no operation is in flight, the stored averages of every    *)
(* cached record agree with its maps: averagePoints is the mean of the     *)
(* values of previousErasPoints (0 when the map is empty) and              *)
(* averageCommission is the mean of the values of historicalCommission     *)
(* (the record's commission when the map is empty).                        *)
C9_StoredAveragesAgreeWithMaps ==
    Quiescent =>
        \A a \in DOMAIN validatorCache :
            LET record == validatorCache[a] IN
            /\ record.performance.averagePoints
                   = MeanOr(IntsAsRats(Values(record.performance.previousErasPoints)), Zero)
            /\ record.averageCommission
                   = MeanOr(Values(record.historicalCommission), record.commission)

(* C10: within one invocation of a batched job the items are taken in      *)
(* consecutive groups of at most b (50 for applyFilters, 25 for the bulk   *)
(* job, 10 for fetchValidatorPage and prefetchValidators, 5 for            *)
(* fetchHistoricalPerformance, 3 for calculateValidatorAPY), no item of a  *)
(* group starts before every item of the group before it has settled, and *)
(* the invocation never has more than b remote calls outstanding.          *)
C10_BatchesBoundOutstandingCalls ==
    /\ [](\A j \in DOMAIN jobs :
             /\ Outstanding(j.loc) <= BatchSizeOf(j.op)
             /\ j.loc.started % BatchSizeOf(j.op) = 0 \/ j.loc.started = j.loc.n)
    /\ [][\A j \in DOMAIN jobs, next \in DOMAIN jobs' :
              next.loc.started > j.loc.started =>
                  /\ next.loc.started - j.loc.started <= BatchSizeOf(j.op)
                     \/ ReadsCache(j.op)
                  /\ Outstanding(next.loc) <= next.loc.started - j.loc.started
                  /\ Outstanding(next.loc) <= BatchSizeOf(j.op)]_vars

(* the second group of a bulk job is in flight, every item of it awaiting  *)
(* a remote call, some of them their second one                            *)
C10_Witness ==
    \E j \in DOMAIN jobs :
        /\ j.op = "calculateLastEraAPYForAllValidators"
        /\ j.loc.started = 2 * BulkBatchSize
        /\ j.loc.n > j.loc.started
        /\ Outstanding(j.loc) = BulkBatchSize
        /\ j.loc.stage[2] > 0


(* C11: in every batched job the failure of an item's remote calls neither *)
(* aborts the job nor alters what the other items produce: a job leaves    *)
(* the in-flight invocations only by going on with its loop or by its      *)
(* normal completion, and at its completion every item whose calls did not *)
(* fail, of whichever group, has the result it has when no item fails.     *)
C11_ItemFailuresAreIsolated ==
    [][\A j \in DOMAIN jobs :
        LET Done(op, arg) == Event(op, arg) \in ev'
            Failed(op) == {e.arg : e \in {x \in ev' : x.op = op}}
            cache == validatorCache'
        IN
        /\ (j.op = "applyFilters" /\ Done("applyFilters", 0)) =>
              \A k \in DOMAIN j.loc.allValidators :
                  LET v == j.loc.allValidators[k] IN
                  v.address \notin Failed("defaultEntry") =>
                      (HasAddress(filteredValidators', v.address)
                          <=> FilterItem(j.loc, v, FALSE) # << >>)
        /\ (j.op = "calculateLastEraAPYForAllValidators" /\ j.loc.pc = "batch"
            /\ Done("calculateLastEraAPYForAllValidators", 0)) =>
              \A k \in DOMAIN j.loc.allValidators :
                  LET a == j.loc.allValidators[k].address
                      result == BulkItem(j.loc, a, FALSE)
                  IN a \notin Failed("bulkItemFailed") =>
                      /\ \A f \in DOMAIN filteredValidators' :
                             filteredValidators'[f].address = a =>
                                 filteredValidators'[f].lastEraAPY = result.lastEraAPY
                      /\ result.validatorInstance # << >> =>
                             /\ IsCached(cache, a)
                             /\ cache[a] = result.validatorInstance[1]
        /\ (j.op = "fetchValidatorPage" /\ Done("fetchValidatorPage", j.loc.page)) =>
              \A k \in DOMAIN j.loc.pageValidators :
                  LET entry == j.loc.pageValidators[k] IN
                  (/\ entry.address \notin Failed("pageItemFailed")
                   /\ ~IsCached(j.loc.validatorCache, entry.address)) =>
                      displayedValidators'[k] = FetchedPageItem(state, j.loc, entry, "ok")
        /\ (j.op = "prefetchValidators" /\ Done("prefetchValidators", 0)) =>
              \A k \in DOMAIN j.loc.toPrefetch :
                  LET entry == j.loc.toPrefetch[k] IN
                  entry.address \notin Failed("prefetchItemFailed") =>
                      /\ IsCached(cache, entry.address)
                      /\ cache[entry.address] = FetchedPageItem(state, j.loc, entry, "ok")
        /\ (j.op = "fetchHistoricalPerformance"
            /\ Done("fetchHistoricalPerformance", j.loc.validatorAddress)) =>
              \A era \in Range(j.loc.historicalEras) \ Failed("historyEraFailed") :
                  LET got == EraPerformance(j.loc.validatorAddress, era, "ok")
                      record == cache[j.loc.validatorAddress]
                      Holds(map, value) ==
                          IF value = << >> THEN era \notin DOMAIN map
                          ELSE era \in DOMAIN map /\ map[era] = value[1]
                  IN /\ Holds(record.performance.previousErasPoints, got.points)
                     /\ Holds(record.rewards.previousErasRewards, got.reward)
                     /\ Holds(record.historicalCommission, got.commission)
        /\ (j.op = "calculateValidatorAPY"
            /\ Done("calculateValidatorAPY", j.loc.validatorAddress)) =>
              \A era \in Range(j.loc.historicalEras) \ Failed("apyEraFailed") :
                  LET got == EraApy(j.loc.validator, j.loc.validatorAddress, era, FALSE)
                      apyByEra == cache[j.loc.validatorAddress].rewards.apyByEra
                  IN IF got = << >> THEN era \notin DOMAIN apyByEra
                     ELSE era \in DOMAIN apyByEra /\ apyByEra[era] = got[1]
        /\ (/\ j.op \in BatchedJobs
            /\ j.op = "calculateLastEraAPYForAllValidators" => j.loc.pc = "batch"
            /\ j \notin DOMAIN jobs') =>
              \/ \E next \in DOMAIN jobs' : next.op = j.op /\ next.loc.i >= j.loc.i
              \/ \E e \in ev' : e.op = j.op]_vars

(* the second group of eras of a history fetch has settled and the fetch   *)
(* has completed, with an era of the first group failed                    *)
C11_Witness ==
    \E e \in ev, f \in ev :
        /\ e.op = "fetchHistoricalPerformance"
        /\ f.op = "historyEraFailed"
        /\ f.arg = LateActiveEra - 1
        /\ Len(historicalEras) > HistoryBatchSize
        /\ IsCached(validatorCache, e.arg)
        /\ LateActiveEra - 2 \in DOMAIN validatorCache[e.arg].performance.previousErasPoints
        /\ 0 \in DOMAIN validatorCache[e.arg].performance.previousErasPoints


(* C12: the APY of a validator for an era is 0 whenever its era points are *)
(* 0, or the era's total points are 0, or its total stake is 0 or absent:  *)
(* when the bulk job completes, lastEraAPY of such a validator is 0 in     *)
(* filteredValidators and in its cache record, and when                    *)
(* calculateValidatorAPY completes, apyByEra holds 0 for such an era.      *)
C12_ApyIsZeroWithoutPointsOrStake ==
    LET PointsOf(era, a) ==
            IF a \in DOMAIN ErasRewardPoints(era).individual
            THEN ErasRewardPoints(era).individual[a] ELSE 0
        StakeOf(era, a) ==
            IF ErasStakersOverview(era, a).present
            THEN ErasStakersOverview(era, a).total ELSE 0
        Earns(era, a) ==
            /\ PointsOf(era, a) # 0
            /\ ErasRewardPoints(era).total # 0
            /\ StakeOf(era, a) # 0
    IN /\ Event("calculateLastEraAPYForAllValidators", 0) \in ev =>
              \A k \in DOMAIN filteredValidators :
                  LET a == filteredValidators[k].address IN
                  ~Earns(state.lastEra, a) =>
                      /\ filteredValidators[k].lastEraAPY = Zero
                      /\ IsCached(validatorCache, a) => validatorCache[a].lastEraAPY = Zero
       /\ \A e \in ev, r \in ev :
              (/\ e.op = "calculateValidatorAPY"
               /\ r.op = "requestedEras"
               /\ IsCached(validatorCache, e.arg)) =>
                  LET apyByEra == validatorCache[e.arg].rewards.apyByEra IN
                  \A k \in DOMAIN r.arg :
                      ~Earns(r.arg[k], e.arg) =>
                          /\ r.arg[k] \in DOMAIN apyByEra
                          /\ apyByEra[r.arg[k]] = Zero

(* C13: for positive points, total points and stake, the era's figures are *)
(* validatorReward = floor(R * p / P), nominatorReward =                   *)
(* validatorReward * (10^9 - floor(c * 10^9)) div 10^9 and                 *)
(* apy = nominatorReward / S * 365.25 * 100; nominatorReward is at most    *)
(* validatorReward; with R = 10^12, p = 100, P = 400, c = 0.1 and          *)
(* S = 5 * 10^11 they are 250 * 10^9, 225 * 10^9 and 16436.25 (here with   *)
(* R and S divided by 10^8: 2500, 2250 and 16436.25).                      *)
C13_ApyFormula ==
    \A e \in ev :
        e.op = "apy" =>
            LET in == e.arg.inputs
                parts == e.arg.parts
                share == in.commission[2] - in.commission[1]
            IN /\ parts.validatorReward
                      = (in.eraReward * in.validatorPoints) \div in.totalEraPoints
               /\ parts.nominatorReward
                      = (parts.validatorReward * share) \div in.commission[2]
               /\ parts.apy = Rat(parts.nominatorReward * AnnualizeTimes100, in.totalStake)
               /\ parts.nominatorReward <= parts.validatorReward
               /\ in = [eraReward |-> 10000, validatorPoints |-> 100,
                        totalEraPoints |-> 400, commission |-> Rat(1, 10),
                        totalStake |-> 5000]
                      => /\ parts.validatorReward = 2500
                         /\ parts.nominatorReward = 2250
                         /\ parts.apy = Rat(65745, 4)

(* C14: the bulk last-era APY job is single-flight: no two invocations of  *)
(* calculateLastEraAPYForAllValidators are in flight together, and a timer *)
(* of applyFilters (500 ms) or fetchAllValidators (1000 ms) that fires     *)
(* while an invocation is running starts no job (so issues no remote call) *)
(* and changes no state.                                                   *)
C14_BulkJobIsSingleFlight ==
    [][LET bulk == Running("calculateLastEraAPYForAllValidators")
           timerFires == \E kind \in {"apy500", "apy1000"} : timers'[kind] < timers[kind]
       IN /\ Cardinality(bulk') <= 1
          /\ \A j \in bulk' : jobs'[j] = 1
          /\ bulk # {} /\ timerFires => state' = state /\ jobs' = jobs]_vars

(* C15: when calculateLastEraAPYForAllValidators completes, every address  *)
(* of filteredValidators that has a cache record at that moment has the    *)
(* same lastEraAPY in its record as in its filteredValidators entry, also  *)
(* when the record was created by a page fetch or a prefetch while the job *)
(* was running.                                                            *)
C15_BulkApyIsInCacheAndFiltered ==
    Event("calculateLastEraAPYForAllValidators", 0) \in ev =>
        \A k \in DOMAIN filteredValidators :
            LET a == filteredValidators[k].address IN
            IsCached(validatorCache, a) =>
                validatorCache[a].lastEraAPY = filteredValidators[k].lastEraAPY

(* C16: while lastEraAPYCalculated is true, filteredValidators is ordered  *)
(* by lastEraAPY, highest first (by the value of each entry and by the     *)
(* value of its cache record, where it has one), also when an applyFilters *)
(* that started before the bulk job finished installs its list after it;   *)
(* and every list that applyFilters or the bulk job installs when the job  *)
(* has completed before is ordered so.  (That the list keeps the order of  *)
(* allValidators until the first completion is not part of the formula:    *)
(* the state keeps no record of past completions.)                         *)
C16_FilteredIsRankedByApy ==
    [][LET ByEntry(s) ==
               \A k \in 1..(Len(s) - 1) :
                   ~RatLess(OrZero(s[k].lastEraAPY), OrZero(s[k + 1].lastEraAPY))
           ByCache(cache, s) ==
               \A k \in 1..(Len(s) - 1) :
                   ~RatLess(CachedApyOrZero(cache, s[k].address),
                            CachedApyOrZero(cache, s[k + 1].address))
           Ranked == ByEntry(filteredValidators') /\ ByCache(validatorCache', filteredValidators')
           installs == \/ Event("applyFilters", 0) \in ev'
                       \/ Event("calculateLastEraAPYForAllValidators", 0) \in ev'
       IN /\ state.lastEraAPYCalculated' => Ranked
          /\ state.lastEraAPYCalculated /\ installs => Ranked]_vars

C20_HistoricalErasIsTheWindow ==
    [][(/\ calls' = calls + 1
        /\ \/ \E a \in ValidatorIds :
                 Commit(setSelectedHistoricalValidator(ConfigAt(Caller), a))
           \/ /\ state.selectedHistoricalValidator # Null
              /\ \E n \in HistoryLengthInputs :
                     Commit(setHistoryLength(ConfigAt(Caller), n)))
       => /\ \A k \in DOMAIN historicalEras' :
                 /\ historicalEras'[k] = state.activeEra' - k
                 /\ historicalEras'[k] >= 0
          /\ Len(historicalEras') = historyLength'
          /\ Len(historicalEras') <= ChainHistoryDepth]_vars

(* C21: when calculateValidatorAPY completes after the queries of some     *)
(* eras of its window failed, apyByEra of the validator's record holds 0   *)
(* for each of those eras and the computed APY for every era whose queries *)
(* succeeded, error holds the warning of one of the failed eras and        *)
(* loadingAPY is false.                                                    *)
C21_FailedEraHasZeroApy ==
    \A e \in ev :
        LET failed == {f.arg : f \in {g \in ev : g.op = "apyEraFailed"}} IN
        (/\ e.op = "calculateValidatorAPY"
         /\ failed # {}
         /\ IsCached(validatorCache, e.arg)) =>
            LET record == validatorCache[e.arg]
                apyByEra == record.rewards.apyByEra
            IN /\ \A era \in failed : era \in DOMAIN apyByEra /\ apyByEra[era] = Zero
               /\ \A r \in {g \in ev : g.op = "requestedEras"} :
                      \A k \in DOMAIN r.arg :
                          LET got == EraApy(record, e.arg, r.arg[k], FALSE) IN
                          r.arg[k] \notin failed /\ got # << >> =>
                              /\ r.arg[k] \in DOMAIN apyByEra
                              /\ apyByEra[r.arg[k]] = got[1]
               /\ \E era \in failed : state.error = <<"APY calc error for era", era>>
               /\ ~state.loadingAPY

(* C22: when the active era query answers nothing or a query of the        *)
(* bootstrap fails, fetchAllValidators returns with a message in error and *)
(* loading = false; allValidators, filteredValidators,                     *)
(* displayedValidators, validatorCache and activeEra are as before, and    *)
(* nothing is started: no applyFilters, no page fetch, no timer of the     *)
(* bulk job or of the prefetch.                                            *)
C22_FailedBootstrapStopsTheSession ==
    [][\A j \in Running("fetchAllValidators") :
           faults' = faults + 1 /\ (j \notin DOMAIN jobs' \/ jobs'[j] < jobs[j]) =>
               /\ state.error' \in {<<"remote call failed">>,
                                    <<"failed gettin the active era...">>}
               /\ ~state.loading'
               /\ allValidators' = allValidators
               /\ filteredValidators' = filteredValidators
               /\ displayedValidators' = displayedValidators
               /\ validatorCache' = validatorCache
               /\ state.activeEra' = state.activeEra
               /\ DOMAIN jobs' \subseteq DOMAIN jobs
               /\ \A i \in DOMAIN jobs' : jobs'[i] <= jobs[i]
               /\ timers' = timers
               /\ Event("fetchAllValidators", 0) \in ev']_vars

(* the active era query has answered nothing                               *)
C22_Witness ==
    /\ state.error = <<"failed gettin the active era...">>
    /\ Event("fetchAllValidators", 0) \in ev
    /\ faults = 1
    /\ ~state.loading
    /\ Quiescent
    /\ allValidators = << >>

C24_PageCount ==
    LET example == [k \in 1..25 |-> k]
        PagesOf(total, size) == (total + size - 1) \div size
    IN /\ TotalPages * pageSize >= totalValidators
       /\ (TotalPages - 1) * pageSize < totalValidators
       /\ \A e \in ev :
              e.op = "fetchValidatorPage" /\ e.arg \in 1..TotalPages =>
                  Len(displayedValidators)
                      = Min(pageSize, totalValidators - (e.arg - 1) * pageSize)
       /\ PagesOf(Len(example), 10) = 3
       /\ Len(Slice(example, (3 - 1) * 10, (3 - 1) * 10 + 10)) = 5

(* C25: error changes only in a step in which a remote call fails, to the  *)
(* message of that failure, or at the start of fetchAllValidators, which   *)
(* clears it; every step of an operation in which nothing fails leaves     *)
(* error as it is.                                                         *)
C25_ErrorChangesOnlyOnFailure ==
    [][state.error' # state.error =>
           \/ faults' > faults /\ state.error' # NoError
           \/ /\ state.error' = NoError
              /\ Running("fetchAllValidators") = {}
              /\ \E j \in DOMAIN jobs' : j.op = "fetchAllValidators"]_vars

(* a page fetch has completed and the warning of an earlier                *)
(* calculateValidatorAPY is still in error                                 *)
C25_Witness ==
    /\ \E era \in 0..LateActiveEra : state.error = <<"APY calc error for era", era>>
    /\ \E e \in ev : e.op = "setPageSize"
    /\ Quiescent

C27_ApplyFiltersKeepsCache ==
    LET Kept(c) == /\ c.state.validatorCache = validatorCache
                   /\ c.state.allValidators = allValidators
    IN /\ \A options \in FilterToggles :
              Kept(applyFilters(Set(ConfigAt(Caller), options), "none"))
       /\ \A j \in Running("applyFilters") :
              \A failures \in SUBSET j.loc.pending :
                  Kept(FilterBatchSettles(ConfigAt(j), "none", j.loc, failures))

(* an applyFilters awaits the preferences of a validator that is not       *)
(* cached, and the cache has changed since it started                      *)
C27_Witness ==
    \E j \in Running("applyFilters") :
        /\ j.loc.pending # {}
        /\ validatorCache # EmptyMap
        /\ validatorCache # j.loc.validatorCache

C30_CachedPageNeedsNoRemoteCall ==
    /\ \A j \in Running("fetchValidatorPage") :
           j.loc.pending \cap DOMAIN j.loc.validatorCache = {}
    /\ \A page \in PageInputs :
           LET slice == Slice(filteredValidators, (page - 1) * pageSize, page * pageSize)
               c == fetchValidatorPage(ConfigAt(Caller), page, "none")
               started == {j \in DOMAIN c.jobs : j \notin DOMAIN jobs \/ c.jobs[j] > jobs[j]}
               cache == c.state.validatorCache
           IN /\ \A j \in started :
                     /\ j.op = "fetchValidatorPage"
                     /\ j.loc.pending \cap DOMAIN validatorCache = {}
              /\ (slice # << >> /\ \A k \in DOMAIN slice : IsCached(validatorCache, slice[k].address)) =>
                     /\ started = {}
                     /\ Event("fetchValidatorPage", page) \in c.ev
                     /\ Addresses(c.state.displayedValidators) = Addresses(slice)
                     /\ \A k \in DOMAIN slice :
                            c.state.displayedValidators[k] = cache[slice[k].address]
                     /\ DOMAIN cache = DOMAIN validatorCache
                     /\ \A a \in DOMAIN cache :
                            cache[a] = [validatorCache[a] EXCEPT !.lastEraAPY = cache[a].lastEraAPY]

(* a page of cached validators whose fetch brings a new lastEraAPY to a    *)
(* cache record, without a remote call                                     *)
C30_Witness ==
    \E page \in PageInputs :
        LET slice == Slice(filteredValidators, (page - 1) * pageSize, page * pageSize)
            c == fetchValidatorPage(ConfigAt(Caller), page, "none")
        IN /\ Len(slice) > 0
           /\ \A k \in DOMAIN slice : IsCached(validatorCache, slice[k].address)
           /\ c.jobs = jobs
           /\ c.state.validatorCache # validatorCache

(* C31: when every remote call settles, every invocation of the batched    *)
(* jobs and of fetchAllValidators terminates and the five loading flags    *)
(* end up false: from some point on no invocation is in flight, no timer   *)
(* is pending and loading, loadingPage, loadingAPY, loadingHistoricalData  *)
(* and calculatingLastEraAPY are all false, whatever calls succeeded,      *)
(* returned early or failed.                                               *)
C31_JobsTerminateAndFlagsClear ==
    <>[](/\ Quiescent
         /\ \A kind \in DOMAIN timers : timers[kind] = 0
         /\ ~state.loading
         /\ ~state.loadingPage
         /\ ~state.loadingAPY
         /\ ~state.loadingHistoricalData
         /\ ~state.calculatingLastEraAPY)

(* the session is at rest with every flag false after a bulk job, a        *)
(* historical fetch and an APY computation have run and remote calls have  *)
(* failed                                                                  *)
C31_Witness ==
    /\ Quiescent
    /\ \A kind \in DOMAIN timers : timers[kind] = 0
    /\ faults > 0
    /\ state.lastEraAPYCalculated
    /\ state.selectedHistoricalValidator # Null
    /\ Event("calculateValidatorAPY", state.selectedHistoricalValidator) \in ev
    /\ ~state.loading
    /\ ~state.loadingPage
    /\ ~state.loadingAPY
    /\ ~state.loadingHistoricalData
    /\ ~state.calculatingLastEraAPY

(* C32: prefetchValidators only fills gaps of the cache: a batch write of  *)
(* prefetchValidators leaves every record that is in validatorCache when   *)
(* it writes as it is.                                                     *)
C32_PrefetchOnlyFillsGaps ==
    [][\A j \in Running("prefetchValidators") :
           \A outcomes \in [j.loc.pending -> ItemOutcomes] :
               (/\ faults' = faults + FaultsIn(outcomes)
                /\ Commit(PrefetchBatchSettles(ConfigAt(j), j.loc, outcomes)))
               => \A a \in DOMAIN validatorCache :
                      validatorCache'[a] = validatorCache[a]]_vars

(* C33: once every applyFilters has completed, filteredValidators is the   *)
(* membership result for the current includeFullCommission and             *)
(* includeBlockedNominations, also when setFilterOptions was called again  *)
(* while an earlier applyFilters was in flight: a validator on the list    *)
(* passes the current flags (by the preferences the chain reports or by    *)
(* its cache record), and a validator that is not on it fails them.        *)
C33_FilteredFollowsCurrentFlags ==
    Running("applyFilters") = {} =>
        \A k \in DOMAIN allValidators :
            LET a == allValidators[k].address
                flags == [includeFullCommission |-> includeFullCommission,
                          includeBlockedNominations |-> includeBlockedNominations]
                prefs == StakingValidators(a)
                byChain == PassesFilters(flags, CommissionOf(prefs), BlockedOf(prefs))
                byCache == PassesFilters(flags, validatorCache[a].commission,
                                         validatorCache[a].blockedNominations)
            IN IF HasAddress(filteredValidators, a)
               THEN byChain \/ (IsCached(validatorCache, a) /\ byCache)
               ELSE ~byChain \/ (IsCached(validatorCache, a) /\ ~byCache)

(* C34: whenever no operation is in flight, displayedValidators is the     *)
(* page that currentPage names: its addresses are those of the slice of    *)
(* filteredValidators for currentPage, also after page fetches for         *)
(* different pages have overlapped and after a historical fetch, an APY    *)
(* computation or a bulk job that started on an earlier page has written   *)
(* displayedValidators.                                                    *)
C34_AtRestDisplayedIsCurrentPage ==
    Quiescent =>
        Addresses(displayedValidators)
            = Addresses(Slice(filteredValidators, (currentPage - 1) * pageSize,
                              (currentPage - 1) * pageSize + pageSize))

(* C35: with pages requested through the pagination controls only (page    *)
(* numbers 1..totalPages), currentPage is at least 1 and at most the       *)
(* number of pages, max(1, ceil(totalValidators / pageSize)), in every     *)
(* reachable state, also right after a filter change or a page-size change *)
(* has left fewer pages.                                                   *)
C35_CurrentPageInRange ==
    /\ 1 <= currentPage
    /\ currentPage <= Max(1, TotalPages)

(* C36: a loading flag is true as long as a job that owns it is in flight:  *)
(* loadingPage while an applyFilters or a fetchValidatorPage is running,    *)
(* loadingHistoricalData while a fetchHistoricalPerformance is running,     *)
(* loadingAPY while a calculateValidatorAPY is running and                  *)
(* calculatingLastEraAPY while a bulk APY run is running; the completion of *)
(* one invocation leaves the flag set while another owner still runs.       *)
C36_FlagsHeldWhileOwnersRun ==
    /\ Running("applyFilters") \cup Running("fetchValidatorPage") # {}
           => state.loadingPage
    /\ Running("fetchHistoricalPerformance") # {} => state.loadingHistoricalData
    /\ Running("calculateValidatorAPY") # {} => state.loadingAPY
    /\ Running("calculateLastEraAPYForAllValidators") # {}
           => state.calculatingLastEraAPY

(* C37: in every reachable state filteredValidators is a sub-collection of *)
(* allValidators without duplicates: every entry has the address and the    *)
(* points of an allValidators entry and no address occurs twice; and a step *)
(* that changes allValidators, activeEra, lastEra or maxHistoryLength is    *)
(* the step of fetchAllValidators in which its queries have settled.        *)
C37_FilteredIsSubcollection ==
    /\ [](/\ \A k \in DOMAIN filteredValidators :
                 \E i \in DOMAIN allValidators :
                     /\ allValidators[i].address = filteredValidators[k].address
                     /\ allValidators[i].points = filteredValidators[k].points
          /\ \A k, l \in DOMAIN filteredValidators :
                 filteredValidators[k].address = filteredValidators[l].address => k = l)
    /\ [][(\/ allValidators' # allValidators
           \/ state.activeEra' # state.activeEra
           \/ state.lastEra' # state.lastEra
           \/ state.maxHistoryLength' # state.maxHistoryLength)
          => \E j \in Running("fetchAllValidators"), outcome \in QueryOutcomes :
                 Commit(BootstrapSettlesAt(ConfigAt(j), j.loc, outcome, state.activeEra'))]_vars

(* the bulk job has re-sorted a list that holds every validator: its order  *)
(* is no longer that of allValidators                                       *)
C37_Witness ==
    /\ state.lastEraAPYCalculated
    /\ Len(filteredValidators) = Len(allValidators)
    /\ Len(filteredValidators) > 1
    /\ filteredValidators[1].address # allValidators[1].address
    /\ filteredValidators[1].points > 0

(* C38: in every reachable state after a successful fetchAllValidators (the *)
(* store holds the active era it read), historyLength is at least 1 and at  *)
(* most maxHistoryLength, and maxHistoryLength is at most 84: also when the *)
(* active era is smaller than the default history length of 20, and whether *)
(* or not setHistoryLength has been called.                                 *)
C38_HistoryLengthWithinMax ==
    state.activeEra > 0 =>
        /\ 1 <= historyLength
        /\ historyLength <= state.maxHistoryLength
        /\ state.maxHistoryLength <= ChainHistoryDepth

====
